---- MODULE Spec2Model ----
(***************************************************************************)
(* The move pipeline of Move.cpp: the ring of DDA descriptors, the         *)
(* planner tick Move::Spin, the step interrupt (Move::Interrupt,           *)
(* Move::CurrentMoveCompleted, Move::StartNextMove), Move::PausePrint and  *)
(* Move::Simulate.                                                         *)
(*                                                                         *)
(* The main task is cooperative: Spin, Simulate and PausePrint never       *)
(* overlap each other.  The step interrupt preempts the main task wherever *)
(* interrupts are enabled.  PausePrint truncates the queue with interrupts *)
(* disabled and then releases the skipped descriptors with interrupts      *)
(* enabled, so its release loop is modelled one iteration per step, with   *)
(* the interrupt free to run between iterations.  A tick of Spin is one    *)
(* step; where the interrupt can complete the current move inside the tick *)
(* with a result that no order of whole steps gives, the tick takes the    *)
(* place of the preemption as an input (preempt).                          *)
(*                                                                         *)
(* Durations are counted in ticks of 1/16 s.                               *)
(*                                                                         *)
(* Around the pipeline: the transforms between user coordinates, machine   *)
(* coordinates and motor positions, Move::LiveCoordinates with its two     *)
(* critical sections, Move::SetPositions and Move::SetFeedrate, and the    *)
(* delta calibration Move::DoDeltaCalibration.  Coordinates are whole      *)
(* numbers of mm.                                                          *)
(*                                                                         *)
(* Apart from the pipeline: the expression parsers of ExpressionParser.cpp *)
(* and StringParser.cpp, as functions of a sequence of tokens.             *)
(***************************************************************************)
EXTENDS Integers, Sequences, FiniteSets, TLC

\* ---------------------------------------------------------------- bounds
\* Number of descriptors in the ring.  (DdaRingLength is set in the
\* configuration header; the firmware uses a longer ring.)
DdaRingLength == 3
\* Number of moves the front-end offers in a run.
MaxMoves == 5
\* Spin dispatches or simulates a move only when idleCount exceeds this.
\* (The code compares with 10; the model scales the threshold down.  The
\* counter is only ever compared with the threshold.)
IdleThreshold == 0
\* Number of calls of PausePrint and of Simulate in a run.
MaxPauses == 1
MaxSimulates == 1
\* Number of moves the front-end offers in a run in which the live position
\* is asked for, positions are set or a delta is calibrated.
\* Number of calls of LiveCoordinates, of DoDeltaCalibration, and of
\* SetPositions and SetFeedrate together, in a run.
MaxFewMoves == 3
MaxLiveCoordinates == 1
MaxCalibrations == 1
MaxSetPositions == 1
\* Length of the longest expression given to the expression parsers.
MaxTokens == 5
\* The number of tokens of a nested expression.
MaxNested == 4
\* The number of lines of a file of G-code, the deepest indentation of a
\* line and how many times conditions are true while a file is read.
MaxFileLines == 4
MaxIndent == 2
MaxTrue == 2

\* ------------------------------------------------------ program constants
\* idleCount stops counting here (1000 in the code: any value above the
\* threshold behaves alike).
MaxIdleCount == IdleThreshold + 1
\* FilePosition value of a move that does not come from a file.
noFilePosition == -1
\* nullptr, as the value of currentDda and of a local DDA pointer.
Nil == -1
\* stepClockRate/8, the preparation horizon: 1/8 s.
PrepareHorizon == 2
\* 0.5 s: admission limit on the unprepared time without the oldest move.
UnpreparedLimit == 8
\* 2.0 s: admission limit on the total unprepared time.
TotalLimit == 32

\* Number of axes (the towers of a delta are its axes), and their indices.
AXES == 3
X_AXIS == 0
Y_AXIS == 1
Z_AXIS == 2

Slots == 0 .. (DdaRingLength - 1)
Axes == 0 .. (AXES - 1)

\* Homed height of a delta before it is configured, in mm.
defaultDeltaHomedHeight == 20
\* Largest number of probe points delta calibration takes.
MaxDeltaCalibrationPoints == 16
\* The idle timeout Move::Init sets, in ticks of the platform's clock.  (30 s
\* in the configuration header; the model scales it down.)
defaultIdleTimeout == 2
\* StringParser::NoIndentSkip: the value of indentToSkipTo when no lines
\* are being skipped, larger than any indentation.
NoIndentSkip == 255

\* The point with coordinate n on every axis.
Point(n) == [a \in Axes |-> n]

\* DDA::GetNext and DDA::GetPrevious: the ring built by the constructor.
GetNext(d) == (d + 1) % DdaRingLength
GetPrevious(d) == (d + DdaRingLength - 1) % DdaRingLength

\* DDA::DDAState
DDAStates == {"empty", "provisional", "frozen", "executing", "completed"}

VARIABLES
    ring,               \* the DDA descriptors, by ring slot
    ddaRingAddPointer,  \* slot where the next move is placed
    ddaRingGetPointer,  \* slot of the oldest move not yet released
    currentDda,         \* slot the step interrupt is executing, or Nil
    addNoMoreMoves,     \* Move::addNoMoreMoves
    idleCount,          \* ticks since a move was last accepted, saturating
    simulating,         \* Move::simulating
    currentFeedrate,    \* feedrate of the last move read
    nextMove,           \* front-end: number of the next move it will offer
    pc,                 \* main task: "run", inside PausePrint's release
                        \* loop ("release"), or PausePrint just returned
    pause,              \* PausePrint's locals and return values
    pauseCalls,         \* calls of PausePrint so far
    simulateCalls,      \* calls of Simulate so far
    begun,              \* history: number of the move whose execution
                        \* (real or simulated) began last
    running,            \* history: number of the move the step interrupt
                        \* is stepping, 0 when none
    liveEndPoints,      \* motor positions at the end of the last move
    liveCoordinates,    \* machine coordinates at the end of the last move
    liveCoordinatesValid,   \* whether liveCoordinates is up to date
    unguarded,          \* history: accesses of the main task to fields
                        \* shared with the step interrupt that it has made
                        \* with interrupts enabled
    deltaParams,        \* Move::deltaParams
    messages,           \* error messages sent to the platform so far
    live,               \* LiveCoordinates: its locals and its result
    calls,              \* calls so far of the operations counted by name
    calibration,        \* history: the arguments of the last call of
                        \* DoDeltaCalibration and what it found
    kinematics,         \* geometry, steps per mm, axis skew and bed
                        \* compensation of the machine
    parse,              \* the expression parser: its input, its position
                        \* and what it has evaluated
    idleHold,           \* the idle-hold state of the drives (iState), the
                        \* timeout, the time waited and, as history, what
                        \* the last tick of Spin asked and commanded
    simulationTime,     \* Move::simulationTime, in ticks of 1/16 s
    gb                  \* the G-code buffer reading a file: the lines of
                        \* the file, the position in it, the block states
                        \* of its machine state, the parser's
                        \* indentToSkipTo and, as history, the conditions
                        \* evaluated and the lines handed on to be executed

liveVars == <<liveEndPoints, liveCoordinates, liveCoordinatesValid>>

\* What the move pipeline proper (Spin, the step interrupt, PausePrint,
\* Simulate) neither reads nor writes, or only reads.
otherVars == <<deltaParams, messages, live, calls, calibration>>

\* What no operation of the move pipeline writes.
restVars == <<kinematics, parse, idleHold, simulationTime, gb>>

vars == <<ring, ddaRingAddPointer, ddaRingGetPointer, currentDda,
          addNoMoreMoves, idleCount, simulating, currentFeedrate, nextMove,
          pc, pause, pauseCalls, simulateCalls, begun, running,
          liveVars, unguarded, otherVars, restVars>>

\* ------------------------------------------------------------ kinematics
\* Coordinates are whole numbers of mm, motor positions whole numbers of
\* steps.  A kinematic configuration k gives the geometry (k.deltaMode,
\* k.coreXYMode), the steps per mm of each drive (k.stepsPerUnit[drive]
\* steps per k.stepUnits mm: the source holds them as a float), the axis
\* skew (k.tanXY, k.tanYZ, k.tanXZ) and the bed compensation
\* (k.identityBedTransform, k.numberOfProbePoints and, for three probe
\* points, the plane k.aX, k.aY, k.aC).

\* The configuration Move::Init leaves, on a machine with the given steps
\* per mm: Cartesian, no skew, no bed compensation.
InitialKinematics(stepsPerUnit) ==
    [deltaMode |-> FALSE, coreXYMode |-> 0, stepsPerUnit |-> stepsPerUnit,
     stepUnits |-> 1,
     tanXY |-> 0, tanYZ |-> 0, tanXZ |-> 0,
     identityBedTransform |-> TRUE, numberOfProbePoints |-> 0,
     aX |-> 0, aY |-> 0, aC |-> 0]

\* Platform::DriveStepsPerUnit of the machine the pipeline runs on.
DriveStepsPerUnit == [a \in Axes |-> IF a = Z_AXIS THEN 4 ELSE 2]

\* Move::MotorEndPointToMachine: steps from mm, rounded to the nearest
\* step, halves away from zero (roundf).
MotorEndPointToMachine(k, drive, coord) ==
    LET roundf(n, d) == IF n >= 0 THEN (2 * n + d) \div (2 * d)
                        ELSE 0 - ((d - 2 * n) \div (2 * d))
    IN  roundf(coord * k.stepsPerUnit[drive], k.stepUnits)

\* MotorTransform without the coupling of the Core machines: every motor
\* is driven by its own axis.
MotorTransformUncoupled(k, machinePos) ==
    [a \in Axes |-> MotorEndPointToMachine(k, a, machinePos[a])]

\* Move::MotorTransform: machine coordinates to motor positions.  (The
\* delta branch, which needs DeltaParameters::Transform, is left out: no
\* move that is mapped to the motors is offered on a delta.)
MotorTransform(k, machinePos) ==
    LET x == machinePos[X_AXIS]
        y == machinePos[Y_AXIS]
        z == machinePos[Z_AXIS]
        M(drive, coord) == MotorEndPointToMachine(k, drive, coord)
    IN  CASE ~k.deltaMode /\ k.coreXYMode = 1 ->
                [a \in Axes |-> IF a = X_AXIS THEN M(a, x + y)
                                ELSE IF a = Y_AXIS THEN M(a, y - x)
                                ELSE M(a, z)]
          [] ~k.deltaMode /\ k.coreXYMode = 2 ->
                [a \in Axes |-> IF a = X_AXIS THEN M(a, x + z)
                                ELSE IF a = Y_AXIS THEN M(a, y)
                                ELSE M(a, z - x)]
          [] ~k.deltaMode /\ k.coreXYMode = 3 ->
                [a \in Axes |-> IF a = X_AXIS THEN M(a, x)
                                ELSE IF a = Y_AXIS THEN M(a, y + z)
                                ELSE M(a, z - y)]
          [] ~k.deltaMode /\ k.coreXYMode \notin {1, 2, 3} ->
                [a \in Axes |-> M(a, machinePos[a])]

\* Move::MachineToEndPoint: motor positions to machine coordinates (the
\* name in the code is the wrong way round).  (Delta branch left out as in
\* MotorTransform.)
MachineToEndPoint(k, motorPos) ==
    LET spu == k.stepsPerUnit
        mX == motorPos[X_AXIS]
        mY == motorPos[Y_AXIS]
        mZ == motorPos[Z_AXIS]
        \* n / d with d a number of steps per mm, or n / (2 * d) with d a
        \* product of two, in whole mm.
        Per(n, d) == (n * k.stepUnits) \div d
    IN  CASE ~k.deltaMode /\ k.coreXYMode = 1 ->
                [a \in Axes |->
                    IF a = X_AXIS
                    THEN Per((mX * spu[Y_AXIS]) - (mY * spu[X_AXIS]),
                             2 * spu[X_AXIS] * spu[Y_AXIS])
                    ELSE IF a = Y_AXIS
                    THEN Per((mX * spu[Y_AXIS]) + (mY * spu[X_AXIS]),
                             2 * spu[X_AXIS] * spu[Y_AXIS])
                    ELSE Per(mZ, spu[Z_AXIS])]
          [] ~k.deltaMode /\ k.coreXYMode = 2 ->
                [a \in Axes |->
                    IF a = X_AXIS
                    THEN Per((mX * spu[Z_AXIS]) - (mZ * spu[X_AXIS]),
                             2 * spu[X_AXIS] * spu[Z_AXIS])
                    ELSE IF a = Y_AXIS THEN Per(mY, spu[Y_AXIS])
                    ELSE Per((mX * spu[Z_AXIS]) + (mZ * spu[X_AXIS]),
                             2 * spu[X_AXIS] * spu[Z_AXIS])]
          [] ~k.deltaMode /\ k.coreXYMode = 3 ->
                [a \in Axes |->
                    IF a = X_AXIS THEN Per(mX, spu[X_AXIS])
                    ELSE IF a = Y_AXIS
                    THEN Per((mY * spu[Z_AXIS]) - (mZ * spu[Y_AXIS]),
                             2 * spu[Y_AXIS] * spu[Z_AXIS])
                    ELSE Per((mY * spu[Z_AXIS]) + (mZ * spu[Y_AXIS]),
                             2 * spu[Y_AXIS] * spu[Z_AXIS])]
          [] ~k.deltaMode /\ k.coreXYMode \notin {1, 2, 3} ->
                [a \in Axes |-> Per(motorPos[a], spu[a])]

\* Move::AxisTransform: x first, from the old y and z; then y.
AxisTransform(k, p) ==
    [p EXCEPT ![X_AXIS] = p[X_AXIS] + k.tanXY * p[Y_AXIS] + k.tanXZ * p[Z_AXIS],
              ![Y_AXIS] = p[Y_AXIS] + k.tanYZ * p[Z_AXIS]]

\* Move::InverseAxisTransform: y first; x from the new y.
InverseAxisTransform(k, p) ==
    LET y == p[Y_AXIS] - k.tanYZ * p[Z_AXIS]
    IN  [p EXCEPT ![Y_AXIS] = y,
                  ![X_AXIS] = p[X_AXIS] - (k.tanXY * y + k.tanXZ * p[Z_AXIS])]

\* Move::BedTransform, for no compensation and for the plane through three
\* probe points.
BedTransform(k, p) ==
    IF k.identityBedTransform THEN p
    ELSE CASE k.numberOfProbePoints = 0 -> p
           [] k.numberOfProbePoints = 3 ->
                [p EXCEPT ![Z_AXIS] = p[Z_AXIS] + k.aX * p[X_AXIS]
                                        + k.aY * p[Y_AXIS] + k.aC]

\* Move::InverseBedTransform, likewise.
InverseBedTransform(k, p) ==
    IF k.identityBedTransform THEN p
    ELSE CASE k.numberOfProbePoints = 0 -> p
           [] k.numberOfProbePoints = 3 ->
                [p EXCEPT ![Z_AXIS] = p[Z_AXIS] - (k.aX * p[X_AXIS]
                                        + k.aY * p[Y_AXIS] + k.aC)]

\* Move::Transform and Move::InverseTransform
Transform(k, p) == BedTransform(k, AxisTransform(k, p))
InverseTransform(k, p) == InverseAxisTransform(k, InverseBedTransform(k, p))

\* Whether Spin maps a move of the given type to the motors.
DoMotorMapping(k, moveType) ==
    moveType = 0 \/ (moveType = 1 /\ ~k.deltaMode)

\* A descriptor as the constructor and Move::Init leave it: empty, with the
\* origin as end coordinate (Move::Init calls SetPositions with zeros).
InitialDda ==
    [state |-> "empty", seq |-> 0, filePos |-> noFilePosition,
     endCoordinate |-> Point(0), endPoint |-> Point(0),
     endCoordinatesValid |-> TRUE, requestedSpeed |-> 0, time |-> 0,
     moveType |-> 0]

\* PausePrint's locals and results when no call is in progress or returned.
NoPause ==
    [savedDdaRingAddPointer |-> Nil, dda |-> Nil, fPos |-> noFilePosition,
     positions |-> Point(0), feedrate |-> 0, skipped |-> FALSE,
     released |-> {},
     entry |-> [ring |-> << >>, add |-> Nil, get |-> Nil, cur |-> Nil,
                pausable |-> {}]]

\* What a read through a null DDA pointer may return: whatever the memory
\* at that address holds, here either of two values no descriptor holds.
UndefinedValues == {-2, -3}

\* GCodes::ReadMove: the moves the front-end may offer as its n-th move.  The
\* n-th move goes to coordinate n on every axis at feedrate 100 + n.  It
\* comes from the print file, at file position n, or from another channel,
\* with noFilePosition (fromFile).  time is its duration in ticks of 1/16 s,
\* and noop marks a move of zero length.  The moves are of type 0.
MovesOffered(n, FromFile, Times, Noops) ==
    {[noop |-> np, seq |-> n, filePos |-> IF ff THEN n ELSE noFilePosition,
      coord |-> Point(n), feedrate |-> 100 + n, time |-> t, moveType |-> 0] :
        np \in Noops, ff \in FromFile, t \in Times}

\* ReadMove returning false: no move is available.
NoMove == [noop |-> TRUE, seq |-> 0]

\* DeltaParameters::Init: not a delta, no endstop adjustments.  (The homed
\* carriage height is first computed when the machine is made a delta.)
InitialDeltaParams ==
    [deltaMode |-> FALSE, endstopAdjustments |-> Point(0),
     homedHeight |-> defaultDeltaHomedHeight, homedCarriageHeight |-> 0]

\* The parameters of a delta as configured: the homed carriage height is
\* what DeltaParameters::Recalc has computed from the geometry.
ConfiguredDeltaParams ==
    [InitialDeltaParams EXCEPT !.deltaMode = TRUE, !.homedCarriageHeight = 30]

\* LiveCoordinates has not been called.
NotInLiveCoordinates == [tempEndPoints |-> Point(0), m |-> Point(0)]

\* DoDeltaCalibration has not been called.
NoCalibration == [numPoints |-> 0, singular |-> FALSE]

\* The expression parser before it is given an expression.
NotParsing ==
    [input |-> << >>, parser |-> "none", pos |-> 1,
     val |-> [type |-> "Null", v |-> 0],
     err |-> [message |-> "", evaluate |-> TRUE],
     retrieved |-> {}, operands |-> {},
     headroom |-> 4096, fault |-> "none", build |-> "wrap"]

\* The idle-hold state Move::Init leaves.  waited is Time() - lastMoveTime
\* while the state is timing; paused and idled are history: what IsPaused
\* answered and how often each drive was commanded idle in the last tick
\* of Spin.  (The drives of the model are its axes.)
InitialIdleHold ==
    [iState |-> "idle", idleTimeout |-> defaultIdleTimeout, waited |-> 0,
     paused |-> FALSE, idled |-> Point(0)]

\* No operation counted in calls has been called.
NoCalls == [LiveCoordinates |-> 0, DoDeltaCalibration |-> 0, SetPositions |-> 0]

InitPipeline ==
    /\ ring = [d \in Slots |-> InitialDda]
    /\ ddaRingAddPointer = 0
    /\ ddaRingGetPointer = 0
    /\ currentDda = Nil
    /\ addNoMoreMoves = FALSE
    /\ idleCount = 0
    /\ simulating = FALSE
    /\ currentFeedrate = 0
    /\ nextMove = 1
    /\ pc = "run"
    /\ pause = NoPause
    /\ pauseCalls = 0
    /\ simulateCalls = 0
    /\ begun = 0
    /\ running = 0
    /\ liveEndPoints = Point(0)
    /\ liveCoordinates = Point(0)
    /\ liveCoordinatesValid = TRUE
    /\ unguarded = {}
    /\ messages = << >>
    /\ live = NotInLiveCoordinates
    /\ calls = NoCalls
    /\ calibration = NoCalibration
    /\ idleHold = InitialIdleHold
    /\ simulationTime = 0
    /\ gb = [file |-> << >>, filePos |-> 1, lineNumber |-> 0, ended |-> FALSE,
             indentLevel |-> 0, indentToSkipTo |-> NoIndentSkip,
             blockStates |-> [l \in 0 .. MaxIndent |->
                                [blockType |-> "plain", iterations |-> 0,
                                 filePos |-> 0, lineNumber |-> 0]],
             error |-> "", evaluated |-> << >>, executed |-> << >>]

\* The state Move::Init leaves: a Cartesian machine without skew or bed
\* compensation.
Init ==
    /\ InitPipeline
    /\ deltaParams = InitialDeltaParams
    /\ kinematics = InitialKinematics(DriveStepsPerUnit)
    /\ parse = NotParsing

\* The machine configured as a delta once Move::Init has run, before any
\* move is offered.
InitDelta ==
    /\ InitPipeline
    /\ deltaParams = ConfiguredDeltaParams
    /\ kinematics = InitialKinematics(DriveStepsPerUnit)
    /\ parse = NotParsing

\* ------------------------------------------------------------ descriptors

\* DDA::Init(nextMove, endStopsToCheck, doMotorMapping, filePos): a no-op
\* move is refused and the descriptor stays empty; otherwise the descriptor
\* takes the move and becomes provisional.  coords gives machine
\* coordinates, which are mapped to the motors, or (doMotorMapping false)
\* the position of each motor in mm, the machine coordinates then being
\* unknown.  (moveType is not a field of the DDA: it is history, the type
\* of the move the descriptor was given.)
DdaInit(r, d, m, coords, doMotorMapping, k) ==
    IF m.noop THEN r
    ELSE [r EXCEPT ![d] =
            [state |-> "provisional", seq |-> m.seq, filePos |-> m.filePos,
             endCoordinate |-> coords,
             endPoint |-> IF doMotorMapping THEN MotorTransform(k, coords)
                          ELSE [a \in Axes |->
                                  MotorEndPointToMachine(k, a, coords[a])],
             endCoordinatesValid |-> doMotorMapping,
             requestedSpeed |-> m.feedrate, time |-> m.time,
             moveType |-> m.moveType]]

\* DDA::FetchEndPosition: the motor positions of the end of the move and,
\* if they are known, its machine coordinates, which it leaves alone
\* otherwise; lv is what the live fields hold.  valid is its result.
FetchEndPosition(dda, lv) ==
    [endPoints |-> dda.endPoint,
     coordinates |-> IF dda.endCoordinatesValid THEN dda.endCoordinate
                     ELSE lv.coordinates,
     valid |-> dda.endCoordinatesValid]

\* DDA::GetEndCoordinate for all axes: the motor positions in mm, or the
\* machine coordinates, computed from the motor positions when they are
\* not known.
GetEndCoordinate(k, dda, disableMotorMapping) ==
    IF disableMotorMapping
    THEN [a \in Axes |->
            (dda.endPoint[a] * k.stepUnits) \div k.stepsPerUnit[a]]
    ELSE IF dda.endCoordinatesValid THEN dda.endCoordinate
    ELSE MachineToEndPoint(k, dda.endPoint)

\* DDA::SetDriveCoordinate: a motor position of the end of the move is
\* replaced, its machine coordinates are no longer known.
SetDriveCoordinate(dda, ep, drive) ==
    [dda EXCEPT !.endPoint[drive] = ep, !.endCoordinatesValid = FALSE]

\* DDA::Prepare: provisional -> frozen; nothing once frozen.
Prepare(r, d) ==
    IF r[d].state = "provisional" THEN [r EXCEPT ![d].state = "frozen"] ELSE r

\* DDA::Release: back to empty; the fields keep their values.
Release(r, d) == [r EXCEPT ![d].state = "empty"]

\* DDA::CanPause: whether the end speed of the move is low enough to stop
\* after it.  The end speed is what look-ahead has made of it by the time of
\* the call; pausable is the set of descriptors it is low enough for.
CanPause(pausable, d) == d \in pausable

\* Move::DDARingEmpty
DDARingEmpty(r, add, get) == add = get /\ r[add].state = "empty"

\* ------------------------------------------------------- step interrupt
\* The ISR-shared part of the state as a record, so that the interrupt's
\* functions can be applied one after the other.
Shared(r, get, cur, bg, rn) ==
    [ring |-> r, get |-> get, cur |-> cur, begun |-> bg, running |-> rn,
     live |-> [endPoints |-> liveEndPoints, coordinates |-> liveCoordinates,
               valid |-> liveCoordinatesValid]]

\* CurrentMoveCompleted without its call of Release.
CurrentMoveCompletedNoRelease(s) ==
    [s EXCEPT !.live = FetchEndPosition(s.ring[s.cur], s.live),
              !.cur = Nil, !.get = GetNext(s.get), !.running = 0]

\* Move::CurrentMoveCompleted
CurrentMoveCompleted(s) ==
    [s EXCEPT !.live = FetchEndPosition(s.ring[s.cur], s.live),
              !.ring = Release(s.ring, s.cur),
              !.cur = Nil,
              !.get = GetNext(s.get),
              !.running = 0]

\* StartNextMove starting the move without recording it in currentDda.
StartNextMoveNoCurrent(s) ==
    IF s.ring[s.get].state = "frozen"
    THEN [s EXCEPT !.ring[s.get].state = "executing",
                   !.begun = s.ring[s.get].seq,
                   !.running = s.ring[s.get].seq]
    ELSE s

\* Move::StartNextMove, with DDA::Start (frozen -> executing)
StartNextMove(s) ==
    IF s.ring[s.get].state = "frozen"
    THEN [s EXCEPT !.cur = s.get,
                   !.ring[s.get].state = "executing",
                   !.begun = s.ring[s.get].seq,
                   !.running = s.ring[s.get].seq]
    ELSE s

\* DDA::Step on the last step of the move: Move is told that the move is
\* completed (CurrentMoveCompleted) and the next move is scheduled.  All of
\* it runs inside the interrupt, so the descriptor's passage through
\* "completed" is seen by nothing else.
StepLast(s) == StartNextMove(CurrentMoveCompleted(s))

\* Move::Interrupt, when the step it serves is the last of the current move.
\* (Steps that do not end the move change nothing the model holds.)
Interrupt ==
    /\ currentDda # Nil
    /\ LET s == StepLast(Shared(ring, ddaRingGetPointer, currentDda, begun, running))
       IN /\ ring' = s.ring
          /\ ddaRingGetPointer' = s.get
          /\ currentDda' = s.cur
          /\ begun' = s.begun
          /\ running' = s.running
          /\ liveEndPoints' = s.live.endPoints
          /\ liveCoordinates' = s.live.coordinates
          /\ liveCoordinatesValid' = s.live.valid
    /\ UNCHANGED <<ddaRingAddPointer, addNoMoreMoves, idleCount, simulating,
                   currentFeedrate, nextMove, pc, pause, pauseCalls,
                   simulateCalls, unguarded, otherVars, restVars>>

\* The configurations of a Cartesian or CoreXY machine once its axis
\* compensation has been set (Move::SetAxisCompensation) and its bed has
\* been probed at three points (Move::SetProbedBedEquation): the XY skew
\* is 0 or 1 mm per mm, the bed is level or the plane z = x + 2.
CompensatedKinematics ==
    {[InitialKinematics(DriveStepsPerUnit) EXCEPT
         !.coreXYMode = c, !.tanXY = t, !.identityBedTransform = ~bed,
         !.numberOfProbePoints = IF bed THEN 3 ELSE 0,
         !.aX = IF bed THEN 1 ELSE 0, !.aC = IF bed THEN 2 ELSE 0] :
        c \in {0, 1}, t \in {0, 1}, bed \in BOOLEAN}

\* A machine with axis and bed compensation configured, before any move is
\* offered.
InitCompensated ==
    /\ InitPipeline
    /\ deltaParams = InitialDeltaParams
    /\ kinematics \in CompensatedKinematics
    /\ parse = NotParsing

\* ---------------------------------------------------------------- planner

\* The kinematic configuration of the machine, a delta if deltaParams says
\* so (Move::IsDeltaMode).
Kinematics == [kinematics EXCEPT !.deltaMode = deltaParams.deltaMode]

\* The accesses to fields shared with the step interrupt that Spin makes
\* with interrupts enabled: the copy it takes of currentDda when it is not
\* simulating, and the live fields it writes when it simulates a move.
ReadsCurrentDda == {<<"currentDda", "read">>}
WritesLiveFields ==
    {<<"liveEndPoints", "write">>, <<"liveCoordinates", "write">>,
     <<"liveCoordinatesValid", "write">>}

\* Spin's admission walk: backwards from the add pointer across the
\* provisional descriptors, summing CalcTime; unprep leaves out the last
\* descriptor visited.
RECURSIVE AdmissionWalk(_, _, _, _)
AdmissionWalk(r, d, unprep, prev) ==
    IF r[d].state # "provisional"
    THEN [unPreparedTime |-> unprep, prevMoveTime |-> prev]
    ELSE AdmissionWalk(r, GetPrevious(d), unprep + prev, r[d].time)

\* The admission test leaving out of the unprepared time the newest
\* provisional move, not the oldest.
AdmitsWithoutNewest(r, add) ==
    LET w == AdmissionWalk(r, GetPrevious(add), 0, 0)
        newest == IF r[GetPrevious(add)].state = "provisional"
                  THEN r[GetPrevious(add)].time ELSE 0
    IN  w.unPreparedTime + w.prevMoveTime - newest < UnpreparedLimit
        \/ w.unPreparedTime + w.prevMoveTime < TotalLimit

Admits(r, add) ==
    LET w == AdmissionWalk(r, GetPrevious(add), 0, 0)
    IN  w.unPreparedTime < UnpreparedLimit
        \/ w.unPreparedTime + w.prevMoveTime < TotalLimit

Busy(st) == st \in {"completed", "executing", "frozen"}

\* DDA::GetTimeLeft: tl is the time the executing move still needs.
GetTimeLeft(r, d, tl) ==
    CASE r[d].state = "executing" -> tl
      [] r[d].state = "frozen" -> r[d].time
      [] OTHER -> 0

\* Spin's first preparation loop: forward from currentDda across completed,
\* executing and frozen descriptors, summing the time left.  n counts the
\* descriptors visited; when all DdaRingLength descriptors are busy the loop
\* does not end (d = Nil).
RECURSIVE PreparedWalk(_, _, _, _, _)
PreparedWalk(r, d, t, tl, n) ==
    IF ~Busy(r[d].state) THEN [d |-> d, preparedTime |-> t]
    ELSE IF n = DdaRingLength THEN [d |-> Nil, preparedTime |-> t]
    ELSE PreparedWalk(r, GetNext(d), t + GetTimeLeft(r, d, tl), tl, n + 1)

\* The second preparation loop without the horizon: every provisional
\* descriptor that follows is prepared.
RECURSIVE PrepareAheadRegardless(_, _, _)
PrepareAheadRegardless(r, d, t) ==
    IF r[d].state = "provisional"
    THEN PrepareAheadRegardless(Prepare(r, d), GetNext(d), t + r[d].time)
    ELSE r

\* Spin's second preparation loop: prepare provisional descriptors while the
\* prepared time is below the horizon.
RECURSIVE PrepareAhead(_, _, _)
PrepareAhead(r, d, t) ==
    IF r[d].state = "provisional" /\ t < PrepareHorizon
    THEN PrepareAhead(Prepare(r, d), GetNext(d), t + r[d].time)
    ELSE r

\* SpinAccept advancing the add pointer and resetting idleCount whatever
\* DDA::Init returns.
SpinAcceptIgnoringRefusal(m) ==
    LET counted == IF idleCount < MaxIdleCount THEN idleCount + 1 ELSE idleCount
        polls == /\ ~addNoMoreMoves
                 /\ ring[ddaRingAddPointer].state = "empty"
                 /\ Admits(ring, ddaRingAddPointer)
        read == polls /\ m # NoMove
        doMotorMapping == DoMotorMapping(Kinematics, m.moveType)
        nextMv == IF doMotorMapping THEN Transform(Kinematics, m.coord)
                  ELSE m.coord
        r1 == IF read
              THEN DdaInit(ring, ddaRingAddPointer, m, nextMv, doMotorMapping,
                           Kinematics)
              ELSE ring
    IN  [ring |-> r1,
         add |-> IF read THEN GetNext(ddaRingAddPointer) ELSE ddaRingAddPointer,
         idleCount |-> IF read THEN 0 ELSE counted,
         feedrate |-> IF read THEN m.feedrate ELSE currentFeedrate,
         nextMove |-> IF read THEN nextMove + 1 ELSE nextMove]

\* SpinAccept taking a descriptor that is already prepared for a free one.
SpinAcceptOverFrozen(m) ==
    LET counted == IF idleCount < MaxIdleCount THEN idleCount + 1 ELSE idleCount
        polls == /\ ~addNoMoreMoves
                 /\ ring[ddaRingAddPointer].state \in {"empty", "frozen"}
                 /\ Admits(ring, ddaRingAddPointer)
        read == polls /\ m # NoMove
        doMotorMapping == DoMotorMapping(Kinematics, m.moveType)
        nextMv == IF doMotorMapping THEN Transform(Kinematics, m.coord)
                  ELSE m.coord
        r1 == IF read
              THEN DdaInit(ring, ddaRingAddPointer, m, nextMv, doMotorMapping,
                           Kinematics)
              ELSE ring
        placed == read /\ ~m.noop
    IN  [ring |-> r1,
         add |-> IF placed THEN GetNext(ddaRingAddPointer) ELSE ddaRingAddPointer,
         idleCount |-> IF placed THEN 0 ELSE counted,
         feedrate |-> IF read THEN m.feedrate ELSE currentFeedrate,
         nextMove |-> IF read THEN nextMove + 1 ELSE nextMove]

\* The first part of Spin: count the tick and, if the descriptor at the add
\* pointer is empty and the admission policy allows, poll the front-end and
\* place the move m it offers (NoMove: none offered).
SpinAccept(m) ==
    LET counted == IF idleCount < MaxIdleCount THEN idleCount + 1 ELSE idleCount
        polls == /\ ~addNoMoreMoves
                 /\ ring[ddaRingAddPointer].state = "empty"
                 /\ Admits(ring, ddaRingAddPointer)
        read == polls /\ m # NoMove
        doMotorMapping == DoMotorMapping(Kinematics, m.moveType)
        nextMv == IF doMotorMapping THEN Transform(Kinematics, m.coord)
                  ELSE m.coord
        r1 == IF read
              THEN DdaInit(ring, ddaRingAddPointer, m, nextMv, doMotorMapping,
                           Kinematics)
              ELSE ring
        placed == read /\ ~m.noop
    IN  [ring |-> r1,
         add |-> IF placed THEN GetNext(ddaRingAddPointer) ELSE ddaRingAddPointer,
         idleCount |-> IF placed THEN 0 ELSE counted,
         feedrate |-> IF read THEN m.feedrate ELSE currentFeedrate,
         nextMove |-> IF read THEN nextMove + 1 ELSE nextMove]

\* The simulation branch of Spin: execute the move at the get pointer by
\* releasing it.
SpinSimulate(a, s) ==
    IF a.idleCount > IdleThreshold /\ ~DDARingEmpty(a.ring, a.add, s.get)
    THEN [s EXCEPT !.live = FetchEndPosition(s.ring[s.get], s.live),
                   !.ring = Release(s.ring, s.get),
                   !.get = GetNext(s.get),
                   !.begun = s.ring[s.get].seq]
    ELSE s

\* The simulation branch when the step interrupt completes the current move
\* between Spin's read of ddaRingGetPointer and its write: the write undoes
\* the interrupt's own advance of the pointer.
SpinSimulatePreempted(a, s) ==
    IF a.idleCount > IdleThreshold /\ ~DDARingEmpty(a.ring, a.add, s.get)
    THEN LET i == StepLast([s EXCEPT !.live = FetchEndPosition(s.ring[s.get], s.live),
                                     !.ring = Release(s.ring, s.get),
                                     !.begun = s.ring[s.get].seq])
         IN  [i EXCEPT !.get = GetNext(s.get)]
    ELSE StepLast(s)

\* Spin with a move executing: walk to the first descriptor that is not
\* prepared and prepare ahead from there.  preempt tells where the step
\* interrupt completes the current move: not inside the tick ("none"),
\* before the walk reads the state of the current move ("early": the walk
\* finds it released and nothing is prepared), or between the walk and the
\* preparation ("late").  w is the result of the walk.
SpinPrepare(a, s, w, preempt) ==
    IF preempt = "early" THEN StepLast(s)
    ELSE IF w.d = Nil THEN s
    ELSE IF preempt = "late"
    THEN LET i == StepLast(s)
         IN  [i EXCEPT !.ring = PrepareAhead(i.ring, w.d, w.preparedTime)]
    ELSE [s EXCEPT !.ring = PrepareAhead(s.ring, w.d, w.preparedTime)]

\* SpinDispatch without the test of idleCount.
SpinDispatchAtOnce(a, s, last) ==
    LET p == [s EXCEPT !.ring = Prepare(s.ring, s.get)]
    IN  IF p.ring[p.get].state = "frozen"
        THEN IF last THEN StepLast(StartNextMove(p)) ELSE StartNextMove(p)
        ELSE p

\* Spin with no move executing: prepare and start the move at the get
\* pointer.  StartNextMove returns true when a step is due at once, and
\* Interrupt then serves it; last says that this step ends the move.
SpinDispatch(a, s, last) ==
    IF a.idleCount > IdleThreshold
    THEN LET p == [s EXCEPT !.ring = Prepare(s.ring, s.get)]
         IN  IF p.ring[p.get].state = "frozen"
             THEN IF last THEN StepLast(StartNextMove(p)) ELSE StartNextMove(p)
             ELSE p
    ELSE s

\* The idle-hold timer jumping from timing to idle without waiting.
SpinIdleHoldAtOnce(h, reached, starts, paused, passed) ==
    LET t == [h EXCEPT !.paused = /\ reached /\ ~starts
                                  /\ h.iState \in {"busy", "timing"}
                                  /\ paused,
                       !.idled = Point(0)]
    IN  IF ~reached THEN t
        ELSE IF starts THEN [t EXCEPT !.iState = "busy"]
        ELSE IF t.iState = "busy" /\ ~paused /\ t.idleTimeout > 0
        THEN [t EXCEPT !.iState = "timing", !.waited = 0]
        ELSE IF t.iState = "timing"
        THEN [t EXCEPT !.iState = "idle", !.idled = Point(1)]
        ELSE t

\* The idle-hold part of Spin.  reached says that Spin gets to its dispatch:
\* no move is executing or simulated and idleCount exceeds the threshold;
\* starts, that the descriptor at the get pointer is frozen and is started.
\* paused is whether the printer is paused (what GCodes::IsPaused answers,
\* which Spin asks only while the state is busy), passed the time that has
\* passed on the platform's clock since the last tick (counted while
\* timing, up to the timeout).  The history field paused keeps it for the
\* ticks that ask it or command the drives idle.
SpinIdleHold(h, reached, starts, paused, passed) ==
    LET waited == IF h.iState # "timing" \/ h.waited + passed > h.idleTimeout
                  THEN h.waited ELSE h.waited + passed
        t == [h EXCEPT !.paused = /\ reached /\ ~starts /\ paused
                                  /\ \/ h.iState = "busy"
                                     \/ /\ h.iState = "timing"
                                        /\ waited >= h.idleTimeout,
                       !.idled = Point(0), !.waited = waited]
    IN  IF ~reached THEN t
        ELSE IF starts THEN [t EXCEPT !.iState = "busy"]
        ELSE IF t.iState = "busy" /\ ~paused /\ t.idleTimeout > 0
        THEN [t EXCEPT !.iState = "timing", !.waited = 0]
        ELSE IF t.iState = "timing" /\ waited >= t.idleTimeout
        THEN [t EXCEPT !.iState = "idle", !.idled = Point(1)]
        ELSE t

\* One tick of Move::Spin.  m is what ReadMove offers if it is polled, last
\* and tl are as above, preempt as in SpinPrepare.
Spin(m, last, tl, preempt) ==
    /\ pc \in {"run", "returned"}
    /\ preempt # "none" => currentDda # Nil
    /\ preempt = "early" => ~simulating
    /\ \E a \in {SpinAccept(m)} :
        \E w \in {IF currentDda = Nil THEN [d |-> Nil, preparedTime |-> 0]
                  ELSE PreparedWalk(a.ring, currentDda, 0, tl, 0)} :
        LET s == Shared(a.ring, ddaRingGetPointer, currentDda, begun, running)
            hangs == /\ ~simulating
                     /\ currentDda # Nil
                     /\ preempt # "early"
                     /\ w.d = Nil
        IN
        \E s2 \in {IF simulating
                   THEN IF preempt = "none" THEN SpinSimulate(a, s)
                        ELSE SpinSimulatePreempted(a, s)
                   ELSE IF currentDda = Nil THEN SpinDispatch(a, s, last)
                   ELSE SpinPrepare(a, s, w, preempt)} :
           /\ ring' = s2.ring
           /\ ddaRingAddPointer' = a.add
           /\ ddaRingGetPointer' = s2.get
           /\ currentDda' = s2.cur
           /\ begun' = s2.begun
           /\ running' = s2.running
           /\ liveEndPoints' = s2.live.endPoints
           /\ liveCoordinates' = s2.live.coordinates
           /\ liveCoordinatesValid' = s2.live.valid
           /\ unguarded' = unguarded \cup
                (IF ~simulating THEN ReadsCurrentDda
                 ELSE IF a.idleCount > IdleThreshold
                         /\ ~DDARingEmpty(a.ring, a.add, s.get)
                 THEN WritesLiveFields ELSE {})
           /\ idleCount' = a.idleCount
           /\ currentFeedrate' = a.feedrate
           /\ nextMove' = a.nextMove
           /\ pc' = IF hangs THEN "spinWalk" ELSE "run"
           /\ \E paused \in IF idleHold.iState \in {"busy", "timing"}
                            THEN BOOLEAN ELSE {FALSE},
                 passed \in IF idleHold.iState = "timing" THEN {0, 1}
                            ELSE {0} :
                idleHold' =
                    SpinIdleHold(idleHold,
                                 /\ ~simulating
                                 /\ currentDda = Nil
                                 /\ a.idleCount > IdleThreshold,
                                 Prepare(s.ring, s.get)[s.get].state = "frozen",
                                 paused, passed)
           /\ simulationTime' =
                IF /\ simulating
                   /\ a.idleCount > IdleThreshold
                   /\ ~DDARingEmpty(a.ring, a.add, s.get)
                THEN simulationTime + s.ring[s.get].time
                ELSE simulationTime
    /\ pause' = NoPause
    /\ UNCHANGED <<addNoMoreMoves, simulating, pauseCalls, simulateCalls,
                   otherVars, kinematics, parse, gb>>

\* Spin's first preparation loop found every descriptor busy and keeps
\* walking the ring; it leaves the loop at the first descriptor the step
\* interrupt has released, which is empty, so nothing is prepared.
SpinWalk ==
    /\ pc = "spinWalk"
    /\ \E d \in Slots : ~Busy(ring[d].state)
    /\ pc' = "run"
    /\ UNCHANGED <<ring, ddaRingAddPointer, ddaRingGetPointer, currentDda,
                   addNoMoreMoves, idleCount, simulating, currentFeedrate,
                   nextMove, pause, pauseCalls, simulateCalls, begun, running,
                   liveVars, unguarded, otherVars, restVars>>

\* Move::Simulate
Simulate(sim) ==
    /\ pc \in {"run", "returned"}
    /\ simulateCalls < MaxSimulates
    /\ simulateCalls' = simulateCalls + 1
    /\ simulating' = sim
    /\ simulationTime' = IF sim THEN 0 ELSE simulationTime
    /\ pc' = "run"
    /\ pause' = NoPause
    /\ UNCHANGED <<ring, ddaRingAddPointer, ddaRingGetPointer, currentDda,
                   addNoMoreMoves, idleCount, currentFeedrate, nextMove,
                   pauseCalls, begun, running, liveVars, unguarded,
                   otherVars, kinematics, parse, idleHold, gb>>

\* ------------------------------------------------------------- PausePrint

\* PausePrint's search, from the get pointer up to the add pointer, for a
\* move it can pause after: the descriptor the search stops at and the new
\* add pointer.
RECURSIVE FindPause(_, _, _)
FindPause(pausable, d, add) ==
    IF d = add THEN [dda |-> d, add |-> add]
    ELSE IF CanPause(pausable, d) THEN [dda |-> d, add |-> GetNext(d)]
    ELSE FindPause(pausable, GetNext(d), add)

\* PauseTruncate moving the add pointer to the executing move itself instead
\* of its successor.
PauseTruncateAtCurrent(pausable, add, get, cur) ==
    IF cur # Nil
    THEN IF CanPause(pausable, cur) THEN [dda |-> cur, add |-> cur]
         ELSE FindPause(pausable, get, add)
    ELSE [dda |-> Nil, add |-> get]

\* The part of PausePrint that runs with interrupts disabled: choose the
\* descriptor to pause after and move the add pointer behind it.
PauseTruncate(pausable, add, get, cur) ==
    IF cur # Nil
    THEN IF CanPause(pausable, cur) THEN [dda |-> cur, add |-> GetNext(cur)]
         ELSE FindPause(pausable, get, add)
    ELSE [dda |-> Nil, add |-> get]

\* Move::GetCurrentMachinePosition: the end of the last queued move, in
\* machine coordinates or (disableMotorMapping) as motor positions in mm.
GetCurrentMachinePosition(k, r, add, disableMotorMapping) ==
    GetEndCoordinate(k, r[GetPrevious(add)], disableMotorMapping)

\* Move::GetCurrentUserPosition
GetCurrentUserPosition(k, r, add, moveType) ==
    LET m == GetCurrentMachinePosition(k, r, add,
                moveType = 2 \/ (moveType = 1 /\ k.deltaMode))
    IN  IF moveType = 0 THEN InverseTransform(k, m) ELSE m

\* The machine coordinates GetEndCoordinate computes for a descriptor that
\* does not know them are kept in the descriptor.
CacheEndCoordinates(k, r, d) ==
    IF r[d].endCoordinatesValid THEN r
    ELSE [r EXCEPT ![d].endCoordinate = MachineToEndPoint(k, r[d].endPoint),
                   ![d].endCoordinatesValid = TRUE]

\* PausePrint up to the start of its release loop.  When moves are skipped,
\* positions and feedrate are read through dda, which is null when no move
\* is executing: u is what such a read returns.
PauseBegin(u, pausable) ==
    /\ pc \in {"run", "returned"}
    /\ pauseCalls < MaxPauses
    /\ pauseCalls' = pauseCalls + 1
    /\ LET t == PauseTruncate(pausable, ddaRingAddPointer, ddaRingGetPointer, currentDda)
           skips == t.add # ddaRingAddPointer
           entry == [ring |-> ring, add |-> ddaRingAddPointer,
                     get |-> ddaRingGetPointer, cur |-> currentDda,
                     pausable |-> pausable]
       IN  /\ ddaRingAddPointer' = t.add
           /\ ring' = IF ~skips
                      THEN CacheEndCoordinates(Kinematics, ring,
                                               GetPrevious(ddaRingAddPointer))
                      ELSE IF t.dda = Nil THEN ring
                      ELSE CacheEndCoordinates(Kinematics, ring, t.dda)
           /\ pc' = IF skips THEN "release" ELSE "returned"
           /\ pause' =
                [savedDdaRingAddPointer |-> ddaRingAddPointer,
                 dda |-> IF skips THEN t.add ELSE t.dda,
                 fPos |-> noFilePosition,
                 positions |->
                    IF ~skips
                    THEN GetCurrentUserPosition(Kinematics, ring,
                                                ddaRingAddPointer, 0)
                    ELSE IF t.dda = Nil THEN Point(u)
                    ELSE GetEndCoordinate(Kinematics, ring[t.dda], FALSE),
                 feedrate |->
                    IF ~skips THEN currentFeedrate
                    ELSE IF t.dda = Nil THEN u
                    ELSE ring[t.dda].requestedSpeed,
                 skipped |-> skips,
                 released |-> {},
                 entry |-> entry]
    /\ UNCHANGED <<ddaRingGetPointer, currentDda, addNoMoreMoves,
                   idleCount, simulating, currentFeedrate, nextMove,
                   simulateCalls, begun, running, liveVars, unguarded,
                   otherVars, restVars>>

\* The release loop taking the file position from the first skipped move
\* only, whether or not it has one.
PauseReleaseFirstOnly ==
    /\ pc = "release"
    /\ LET d == pause.dda
       IN  /\ ring' = Release(ring, d)
           /\ pause' = [pause EXCEPT
                          !.fPos = IF d = ddaRingAddPointer THEN ring[d].filePos ELSE @,
                          !.dda = GetNext(d),
                          !.released = @ \cup {d}]
           /\ pc' = IF GetNext(d) = pause.savedDdaRingAddPointer
                    THEN "returned" ELSE "release"
    /\ UNCHANGED <<ddaRingAddPointer, ddaRingGetPointer, currentDda,
                   addNoMoreMoves, idleCount, simulating, currentFeedrate,
                   nextMove, pauseCalls, simulateCalls, begun, running,
                   liveVars, unguarded, otherVars, restVars>>

\* One iteration of PausePrint's release loop, which runs with interrupts
\* enabled; after the last one PausePrint returns fPos.
PauseRelease ==
    /\ pc = "release"
    /\ LET d == pause.dda
       IN  /\ ring' = Release(ring, d)
           /\ pause' = [pause EXCEPT
                          !.fPos = IF @ = noFilePosition THEN ring[d].filePos ELSE @,
                          !.dda = GetNext(d),
                          !.released = @ \cup {d}]
           /\ pc' = IF GetNext(d) = pause.savedDdaRingAddPointer
                    THEN "returned" ELSE "release"
    /\ UNCHANGED <<ddaRingAddPointer, ddaRingGetPointer, currentDda,
                   addNoMoreMoves, idleCount, simulating, currentFeedrate,
                   nextMove, pauseCalls, simulateCalls, begun, running,
                   liveVars, unguarded, otherVars, restVars>>

\* ------------------------------------------------- positions and feedrate

\* The main task is in none of its operations that take several steps.
MainTaskFree == pc \in {"run", "returned"}

\* DDA::SetPositions: the descriptor is given a position, in machine
\* coordinates and on the motors.
DdaSetPositions(k, dda, move) ==
    [dda EXCEPT !.endCoordinate = move,
                !.endPoint = MotorTransform(k, move),
                !.endCoordinatesValid = TRUE]

\* Move::SetPositions
SetPositions(move) ==
    /\ MainTaskFree
    /\ calls.SetPositions < MaxSetPositions
    /\ calls' = [calls EXCEPT !.SetPositions = @ + 1]
    /\ IF DDARingEmpty(ring, ddaRingAddPointer, ddaRingGetPointer)
       THEN /\ ring' = [ring EXCEPT ![GetPrevious(ddaRingAddPointer)] =
                                        DdaSetPositions(Kinematics, @, move)]
            /\ messages' = messages
       ELSE /\ ring' = ring
            /\ messages' =
                Append(messages, "SetPositions called when DDA ring not empty")
    /\ UNCHANGED <<ddaRingAddPointer, ddaRingGetPointer, currentDda,
                   addNoMoreMoves, idleCount, simulating, currentFeedrate,
                   nextMove, pc, pause, pauseCalls, simulateCalls, begun,
                   running, liveVars, unguarded, deltaParams, live,
                   calibration, restVars>>

\* Move::SetFeedrate, with DDA::SetFeedRate
SetFeedrate(feedRate) ==
    /\ MainTaskFree
    /\ calls.SetPositions < MaxSetPositions
    /\ calls' = [calls EXCEPT !.SetPositions = @ + 1]
    /\ IF DDARingEmpty(ring, ddaRingAddPointer, ddaRingGetPointer)
       THEN /\ currentFeedrate' = feedRate
            /\ ring' = [ring EXCEPT
                          ![GetPrevious(ddaRingAddPointer)].requestedSpeed =
                                feedRate]
            /\ messages' = messages
       ELSE /\ currentFeedrate' = currentFeedrate
            /\ ring' = ring
            /\ messages' =
                Append(messages, "SetFeedrate called when DDA ring not empty")
    /\ UNCHANGED <<ddaRingAddPointer, ddaRingGetPointer, currentDda,
                   addNoMoreMoves, idleCount, simulating, nextMove, pc, pause,
                   pauseCalls, simulateCalls, begun, running, liveVars,
                   unguarded, deltaParams, live, calibration, restVars>>

\* -------------------------------------------------------- LiveCoordinates

\* LiveCoordinates up to the end of its first critical section: the cached
\* coordinates are returned if they are valid (user coordinates, in live.m);
\* otherwise the live end points are sampled, and the interrupt is free to
\* run while they are converted.
LiveCoordinatesBegin ==
    /\ MainTaskFree
    /\ calls.LiveCoordinates < MaxLiveCoordinates
    /\ calls' = [calls EXCEPT !.LiveCoordinates = @ + 1]
    /\ IF liveCoordinatesValid
       THEN /\ live' = [live EXCEPT
                          !.m = InverseTransform(Kinematics, liveCoordinates)]
            /\ pc' = pc
       ELSE /\ live' = [live EXCEPT !.tempEndPoints = liveEndPoints]
            /\ pc' = "liveCoordinates"
    /\ UNCHANGED <<ring, ddaRingAddPointer, ddaRingGetPointer, currentDda,
                   addNoMoreMoves, idleCount, simulating, currentFeedrate,
                   nextMove, pause, pauseCalls, simulateCalls, begun, running,
                   liveVars, unguarded, deltaParams, messages, calibration,
                   restVars>>

\* The rest of LiveCoordinates storing the converted coordinates back
\* without looking at the live end points again.
LiveCoordinatesEndUnchecked ==
    /\ pc = "liveCoordinates"
    /\ LET m == MachineToEndPoint(Kinematics, live.tempEndPoints)
       IN  /\ liveCoordinates' = m
           /\ liveCoordinatesValid' = TRUE
           /\ live' = [live EXCEPT !.m = InverseTransform(Kinematics, m)]
    /\ pc' = "run"
    /\ UNCHANGED <<ring, ddaRingAddPointer, ddaRingGetPointer, currentDda,
                   addNoMoreMoves, idleCount, simulating, currentFeedrate,
                   nextMove, pause, pauseCalls, simulateCalls, begun, running,
                   liveEndPoints, unguarded, deltaParams, messages, calls,
                   calibration, restVars>>

\* The rest of LiveCoordinates: the sampled end points are converted and,
\* in a second critical section, stored back as the cached coordinates if
\* the live end points still are what was sampled.
LiveCoordinatesEnd ==
    /\ pc = "liveCoordinates"
    /\ LET m == MachineToEndPoint(Kinematics, live.tempEndPoints)
       IN  /\ IF live.tempEndPoints = liveEndPoints
              THEN /\ liveCoordinates' = m
                   /\ liveCoordinatesValid' = TRUE
              ELSE UNCHANGED <<liveCoordinates, liveCoordinatesValid>>
           /\ live' = [live EXCEPT !.m = InverseTransform(Kinematics, m)]
    /\ pc' = "run"
    /\ UNCHANGED <<ring, ddaRingAddPointer, ddaRingGetPointer, currentDda,
                   addNoMoreMoves, idleCount, simulating, currentFeedrate,
                   nextMove, pause, pauseCalls, simulateCalls, begun, running,
                   liveEndPoints, unguarded, deltaParams, messages, calls,
                   calibration, restVars>>

\* ------------------------------------------------------ delta calibration
\* The geometry of the delta (tower positions, rod length, radius) is not
\* modelled.  What DeltaParameters::Recalc computes from it, the height of
\* the carriages above the homed height when the head is homed, is an input
\* g of the operations that recalculate.

\* DeltaParameters::GetHomedCarriageHeight
GetHomedCarriageHeight(dp, axis) ==
    dp.homedCarriageHeight + dp.endstopAdjustments[axis]

\* DeltaParameters::NormaliseEndstopAdjustments
NormaliseEndstopAdjustments(dp) ==
    LET e == dp.endstopAdjustments
        eav == (e[X_AXIS] + e[Y_AXIS] + e[Z_AXIS]) \div 3
    IN  [dp EXCEPT !.endstopAdjustments = [a \in Axes |-> e[a] - eav],
                   !.homedHeight = @ + eav,
                   !.homedCarriageHeight = @ + eav]

\* DeltaParameters::Recalc, as far as the homed carriage height goes.
Recalc(dp, g) ==
    IF dp.deltaMode THEN [dp EXCEPT !.homedCarriageHeight = dp.homedHeight + g]
    ELSE dp

\* DeltaParameters::AdjustFour: v[0..2] are added to the endstop
\* adjustments; v[3] changes the radius, and with it g.
AdjustFour(dp, v, g) ==
    Recalc(NormaliseEndstopAdjustments(
             [dp EXCEPT !.endstopAdjustments = [a \in Axes |-> @[a] + v[a]]]),
           g)

\* DeltaParameters::AdjustSeven: v[0..2] are added to the endstop
\* adjustments; v[3..6] change the towers and the rods, and with them g.
AdjustSeven(dp, v, g) ==
    LET oldCarriageHeightA == GetHomedCarriageHeight(dp, X_AXIS)
        r == Recalc(NormaliseEndstopAdjustments(
                      [dp EXCEPT !.endstopAdjustments =
                                    [a \in Axes |-> @[a] + v[a]]]),
                    g)
        heightError ==
            GetHomedCarriageHeight(r, X_AXIS) - oldCarriageHeightA - v[X_AXIS]
    IN  [r EXCEPT !.homedHeight = @ - heightError,
                  !.homedCarriageHeight = @ - heightError]

\* The geometry of one delta, in whole units: the towers A, B and C at
\* (-3, 0), (3, 0) and (0, 3), as a seven-factor adjustment may leave them,
\* with rods of length 5.
DeltaGeometry ==
    [towerX |-> [a \in Axes |-> CASE a = X_AXIS -> -3 [] a = Y_AXIS -> 3
                                  [] OTHER -> 0],
     towerY |-> [a \in Axes |-> IF a = Z_AXIS THEN 3 ELSE 0],
     diagonal |-> 5]

\* DeltaParameters::InverseTransform, as far as machinePos[Z_AXIS] goes,
\* with the coefficients DeltaParameters::Recalc caches.  The source
\* computes in float; here the square root and the quotient are rounded
\* down to whole units.  (The discriminant is not negative for the carriage
\* heights the model uses.)
InverseTransformZ(Ha, Hb, Hc) ==
    LET towerX == DeltaGeometry.towerX
        towerY == DeltaGeometry.towerY
        fsquare(x) == x * x
        sqrtf(n) ==
            LET h == CHOOSE k \in 0 .. 150 :
                        fsquare(150 * k) <= n /\ n < fsquare(150 * (k + 1))
            IN  CHOOSE r \in (150 * h) .. (150 * h + 149) :
                    fsquare(r) <= n /\ n < fsquare(r + 1)
        Xbc == towerX[Z_AXIS] - towerX[Y_AXIS]
        Xca == towerX[X_AXIS] - towerX[Z_AXIS]
        Xab == towerX[Y_AXIS] - towerX[X_AXIS]
        Ybc == towerY[Z_AXIS] - towerY[Y_AXIS]
        Yca == towerY[X_AXIS] - towerY[Z_AXIS]
        Yab == towerY[Y_AXIS] - towerY[X_AXIS]
        coreFa == fsquare(towerX[X_AXIS]) + fsquare(towerY[X_AXIS])
        coreFb == fsquare(towerX[Y_AXIS]) + fsquare(towerY[Y_AXIS])
        coreFc == fsquare(towerX[Z_AXIS]) + fsquare(towerY[Z_AXIS])
        Q == 2 * (Xca * Yab - Xab * Yca)
        Q2 == fsquare(Q)
        D2 == fsquare(DeltaGeometry.diagonal)
        Fa == coreFa + fsquare(Ha)
        Fb == coreFb + fsquare(Hb)
        Fc == coreFc + fsquare(Hc)
        P == (Xbc * Fa) + (Xca * Fb) + (Xab * Fc)
        S == (Ybc * Fa) + (Yca * Fb) + (Yab * Fc)
        R == 2 * ((Xbc * Ha) + (Xca * Hb) + (Xab * Hc))
        U == 2 * ((Ybc * Ha) + (Yca * Hb) + (Yab * Hc))
        A == fsquare(U) + fsquare(R) + Q2
        minusHalfB == S * U + P * R + Ha * Q2 + towerX[X_AXIS] * U * Q
                        - towerY[X_AXIS] * R * Q
        C == fsquare(S + towerX[X_AXIS] * Q) + fsquare(P - towerY[X_AXIS] * Q)
                + (fsquare(Ha) - D2) * Q2
    IN  (minusHalfB - sqrtf(fsquare(minusHalfB) - A * C)) \div A

\* What DeltaParameters::Recalc adds to homedHeight to get the homed
\* carriage height, for the endstop adjustments e: the third carriage
\* height it passes to InverseTransform is that of tower A.
HomedCarriageTerm(e) ==
    LET tempHeight == DeltaGeometry.diagonal
    IN  tempHeight - InverseTransformZ(tempHeight + e[X_AXIS],
                                       tempHeight + e[Y_AXIS],
                                       tempHeight + e[X_AXIS])

\* Move::AdjustDeltaParameters.  It runs with interrupts enabled: preemptAt
\* is Nil, or the number of drives whose live end point it has written when
\* the step interrupt completes the current move.  The result gives the new
\* parameters and the state shared with the interrupt.
AdjustDeltaParameters(v, allSeven, g, preemptAt) ==
    LET dp == IF allSeven THEN AdjustSeven(deltaParams, v, g)
              ELSE AdjustFour(deltaParams, v, g)
        lastQueuedMove == GetPrevious(ddaRingAddPointer)
        endCoordinates == ring[lastQueuedMove].endPoint
        ep == [drive \in Axes |->
                 endCoordinates[drive]
                   + (GetHomedCarriageHeight(dp, drive)
                        - GetHomedCarriageHeight(deltaParams, drive))
                     * DriveStepsPerUnit[drive]]
        s == Shared(ring, ddaRingGetPointer, currentDda, begun, running)
        i == IF preemptAt = Nil THEN s ELSE StepLast(s)
    IN  [deltaParams |-> dp,
         shared |->
            [i EXCEPT
                !.ring[lastQueuedMove] =
                    SetDriveCoordinate(
                      SetDriveCoordinate(
                        SetDriveCoordinate(@, ep[X_AXIS], X_AXIS),
                        ep[Y_AXIS], Y_AXIS),
                      ep[Z_AXIS], Z_AXIS),
                !.live = [endPoints |->
                            [drive \in Axes |->
                                IF preemptAt # Nil /\ drive < preemptAt
                                THEN i.live.endPoints[drive]
                                ELSE ep[drive]],
                          coordinates |-> i.live.coordinates,
                          valid |-> FALSE]]]

\* The accesses to fields shared with the step interrupt that
\* AdjustDeltaParameters makes with interrupts enabled.
AdjustWritesLiveFields ==
    {<<"liveEndPoints", "write">>, <<"liveCoordinatesValid", "write">>}

\* Move::DoDeltaCalibration with numPoints probe points.  The solution of
\* the normal equations is v (and g for what it does to the geometry);
\* singular says that the normal matrix is singular, in which case v and g
\* are whatever the elimination leaves.
DoDeltaCalibration(numPoints, singular, v, g, preemptAt) ==
    /\ MainTaskFree
    /\ calls.DoDeltaCalibration < MaxCalibrations
    /\ preemptAt # Nil => currentDda # Nil
    /\ calls' = [calls EXCEPT !.DoDeltaCalibration = @ + 1]
    /\ calibration' = [numPoints |-> numPoints, singular |-> singular]
    /\ IF numPoints < 4 \/ numPoints > MaxDeltaCalibrationPoints
       THEN /\ messages' = Append(messages, "Delta calibration error")
            /\ UNCHANGED <<ring, ddaRingGetPointer, currentDda, begun,
                           running, liveVars, unguarded, deltaParams>>
       ELSE LET a == AdjustDeltaParameters(v, numPoints >= 7, g, preemptAt)
            IN  /\ deltaParams' = a.deltaParams
                /\ ring' = a.shared.ring
                /\ ddaRingGetPointer' = a.shared.get
                /\ currentDda' = a.shared.cur
                /\ begun' = a.shared.begun
                /\ running' = a.shared.running
                /\ liveEndPoints' = a.shared.live.endPoints
                /\ liveCoordinates' = a.shared.live.coordinates
                /\ liveCoordinatesValid' = a.shared.live.valid
                /\ unguarded' = unguarded \cup AdjustWritesLiveFields
                /\ messages' = messages
    /\ UNCHANGED <<ddaRingAddPointer, addNoMoreMoves, idleCount, simulating,
                   currentFeedrate, nextMove, pc, pause, pauseCalls,
                   simulateCalls, live, restVars>>

\* ------------------------------------------------------ expression parser
\* The two expression parsers of the firmware: ExpressionParser
\* (ExpressionParser::ParseInternal) and the one built into StringParser
\* (StringParser::ParseExpression).  An expression is a sequence of tokens
\* separated by blanks.  The state of a parse is a record: pos is the
\* position of the current token, val the value parsed last, err the
\* exception thrown, if any, headroom the bytes of stack that are left,
\* fault how the parse ended if not by returning or throwing, build what
\* the build makes of a signed overflow ("wrap" or "trap").  Two fields are
\* history: retrieved is the set of positions of the identifiers whose
\* value has been retrieved from the object model, and operands records,
\* for every operand of `&`, `|` and `?:` (other than the first) parsed so
\* far, how it was parsed.

\* The tokens: identifiers (the named constants true, false and null, the
\* object model paths a, an integer, and u, no such value), numbers, and
\* the operators, unary or binary, each spelled in full.
Identifiers == {"true", "false", "null", "a", "u"}
ObjectModel == [a |-> [type |-> "Int32", v |-> 7]]
Paths == {"a", "u"}
Numbers == {"0", "1", "2", "3", "4", "2147483647"}
Tokens == {"true", "false", "1", "&", "|", "?", ":", "-", "+"} \cup Paths

\* NamedEnum(NamedConstant, ...) of ExpressionParser and the names
\* StringParser::ParseIdentifierExpression compares with, as far as they are
\* among the identifiers: StringParser has no null.
NamedConstants(parser) ==
    IF parser = "ExpressionParser" THEN {"true", "false", "null"}
    ELSE {"true", "false"}

\* The first character of a token and the one that follows it ("" if a
\* blank or the end follows).
Characters(t) ==
    CASE t = "&&" -> <<"&", "&">>
      [] t = "||" -> <<"|", "|">>
      [] t = "==" -> <<"=", "=">>
      [] t = "!=" -> <<"!", "=">>
      [] t = "<=" -> <<"<", "=">>
      [] t = ">=" -> <<">", "=">>
      [] OTHER -> <<t, "">>

\* static constexpr const char *operators and priorities[], without ^ and /
\* (strings and floating point numbers are not modelled); UnaryPriority is
\* above them all.  The operators of StringParser do not include `!`.
Priorities == [x \in {"?", "&", "|", "!", "=", "<", ">", "+", "-", "*"} |->
                 CASE x = "?" -> 1
                   [] x \in {"&", "|"} -> 3
                   [] x \in {"!", "=", "<", ">"} -> 4
                   [] x \in {"+", "-"} -> 5
                   [] x = "*" -> 6]
Operators(parser) ==
    IF parser = "ExpressionParser" THEN DOMAIN Priorities
    ELSE DOMAIN Priorities \ {"!"}
UnaryPriority == 10

\* namespace StackUsage: the bytes of stack a function needs.  Throw and
\* Margin are declared in a header that is not among the sources; they are
\* taken as 1050 and 300 bytes.
StackUsage ==
    [ParseInternal |-> 80, ParseIdentifierExpression |-> 240,
     GetObjectValueUsingTableNumber |-> 48]
ExceptionStackUsage == [Throw |-> 1050, Margin |-> 300]

\* The largest int32_t.
MaxInt32 == 2147483647

NullValue == [type |-> "Null", v |-> 0]
BoolValue(b) == [type |-> "Bool", v |-> b]
IntValue(n) == [type |-> "Int32", v |-> n]

\* No exception has been thrown.
NoError == [message |-> "", evaluate |-> TRUE]

\* CurrentCharacter: the current token, "" at the end of the expression.
CurrentCharacter(st) ==
    IF st.pos <= Len(st.input) THEN st.input[st.pos] ELSE ""

AdvancePointer(st) == [st EXCEPT !.pos = st.pos + 1]

\* ThrowParseException, thrown by a function that was called with the
\* given evaluate.
ThrowParseException(st, message, evaluate) ==
    [st EXCEPT !.err = [message |-> message, evaluate |-> evaluate]]

Thrown(st) == st.err # NoError

\* The parse has ended early: by an exception, by a software reset, or in
\* undefined behaviour (the stack overrun, or a signed overflow in a build
\* that traps).
Stopped(st) == Thrown(st) \/ st.fault # "none"

\* ExpressionParser::CheckStack, called before a function that needs
\* calledFunctionStackUsage bytes is called.  st.headroom is what is left of
\* the stack (stackPtr - stackLimit).  StringParser has no such function and
\* calls none.
CheckStack(parser, st, calledFunctionStackUsage, evaluate) ==
    IF parser # "ExpressionParser" \/ Stopped(st) THEN st
    ELSE IF calledFunctionStackUsage + (ExceptionStackUsage.Throw
                + ExceptionStackUsage.Margin) <= st.headroom
    THEN st
    ELSE IF ExceptionStackUsage.Throw <= st.headroom
    THEN ThrowParseException(st, "Expression nesting too deep", evaluate)
    \* SoftwareReset(SoftwareResetReason::stackOverflow, ...)
    ELSE [st EXCEPT !.fault = "stackOverflow"]

\* A function that needs the given bytes of stack is entered and left.  To
\* enter it with less stack left overruns the stack.  The frames of the
\* functions of StringParser are taken to be those of the functions of
\* ExpressionParser of the same name.
Enter(st, usage) ==
    IF st.headroom < usage THEN [st EXCEPT !.fault = "overrun"]
    ELSE [st EXCEPT !.headroom = @ - usage]
Leave(st, usage) ==
    IF st.fault = "overrun" THEN st
    ELSE [st EXCEPT !.headroom = @ + usage]

\* val.iVal += val2.iVal, -= and *= on int32_t: whether the result is in
\* range, and what it is in two's complement if it is not (the product from
\* the halves of 16 bits of the operands).
Arith32(op, x, y) ==
    LET MinInt32 == -MaxInt32 - 1
        addFits(p, q) == IF q >= 0 THEN p <= MaxInt32 - q
                         ELSE p >= MinInt32 - q
        addWrap(p, q) == IF addFits(p, q) THEN p + q
                         ELSE IF q > 0
                         THEN (p - MaxInt32) + (q - MaxInt32) - 2
                         ELSE (p + MaxInt32) + (q + MaxInt32) + 2
        subFits(p, q) == IF q >= 0 THEN p >= MinInt32 + q
                         ELSE p <= MaxInt32 + q
        subWrap(p, q) == IF subFits(p, q) THEN p - q
                         ELSE IF q > 0
                         THEN (p + MaxInt32) + (MaxInt32 - q) + 2
                         ELSE (p - MaxInt32) - (q + MaxInt32) - 2
        mulFits(p, q) ==
            CASE p = 0 \/ q = 0 -> TRUE
              [] p > 0 /\ q > 0 -> p <= MaxInt32 \div q
              [] p < 0 /\ q < 0 -> /\ p # MinInt32 /\ q # MinInt32
                                   /\ (-p) <= MaxInt32 \div (-q)
              [] p > 0 /\ q < 0 -> q >= (MinInt32 + p - 1) \div p
              [] p < 0 /\ q > 0 -> p >= (MinInt32 + q - 1) \div q
        mulWrap(p, q) ==
            LET pl == p % 65536
                ph == (p - pl) \div 65536
                ql == q % 65536
                qh == (q - ql) \div 65536
                m == (((ph * ql) % 65536) + ((pl * qh) % 65536)) % 65536
                p1 == pl * (ql \div 256)
                p0 == pl * (ql % 256)
                l == (p1 % 256) * 256 + p0
                h == (m + (p1 \div 256) + (l \div 65536)) % 65536
            IN  IF h >= 32768 THEN (h - 65536) * 65536 + (l % 65536)
                ELSE h * 65536 + (l % 65536)
    IN  CASE op = "+" -> [fits |-> addFits(x, y), wrapped |-> addWrap(x, y)]
          [] op = "-" -> [fits |-> subFits(x, y), wrapped |-> subWrap(x, y)]
          [] op = "*" -> [fits |-> mulFits(x, y), wrapped |-> mulWrap(x, y)]

\* ConvertToBool, were a number other than 0 taken for true.
ConvertToBoolOfNumber(st, evaluate) ==
    IF st.val.type = "Int32"
    THEN [st EXCEPT !.val = BoolValue(st.val.v # 0)]
    ELSE IF st.val.type # "Bool"
    THEN IF evaluate
         THEN ThrowParseException(st, "expected Boolean operand", evaluate)
         ELSE [st EXCEPT !.val = BoolValue(FALSE)]
    ELSE st

\* ConvertToBool, the same in both parsers.
ConvertToBool(st, evaluate) ==
    IF st.val.type # "Bool"
    THEN IF evaluate
         THEN ThrowParseException(st, "expected Boolean operand", evaluate)
         ELSE [st EXCEPT !.val = BoolValue(FALSE)]
    ELSE st

\* BalanceNumericTypes for operands val1 and val2 that are not floating
\* point numbers, the same in both parsers: the operands balanced, or ""
\* for the exception.
BalanceNumericTypes(val1, val2, evaluate) ==
    IF val1.type # "Int32" \/ val2.type # "Int32"
    THEN IF evaluate THEN ""
         ELSE <<IntValue(0), IntValue(0)>>
    ELSE <<val1, val2>>

\* BalanceTypes for operands that are neither floating point numbers nor
\* strings, the same in both parsers: the operands balanced, or "" for the
\* exception.
BalanceTypes(val1, val2, evaluate) ==
    IF val1.type = val2.type THEN <<val1, val2>>
    ELSE IF evaluate THEN ""
    ELSE <<IntValue(0), IntValue(0)>>

\* ParseNumber of either parser, for a number without point or exponent
\* that fits an int32_t.
ParseNumber(st) ==
    LET c == CurrentCharacter(st)
    IN  [AdvancePointer(st) EXCEPT !.val =
            IntValue(CASE c = "0" -> 0
                       [] c = "1" -> 1
                       [] c = "2" -> 2
                       [] c = "3" -> 3
                       [] c = "4" -> 4
                       [] c = "2147483647" -> MaxInt32)]

\* RepRap::GetObjectValue, RepRap::GetObjectValueUsingTableNumber: the
\* value of an object model path is retrieved, an exception thrown if there
\* is none.  st.pos is the position of the path.
GetObjectValue(st, evaluate) ==
    LET id == CurrentCharacter(st)
        got == [AdvancePointer(st) EXCEPT !.retrieved = @ \cup {st.pos}]
    IN  IF id \in DOMAIN ObjectModel
        THEN [got EXCEPT !.val = ObjectModel[id]]
        ELSE ThrowParseException(got, "unknown value", evaluate)

\* ParseIdentifierExpression of either parser, for named constants and
\* object model paths.  ExpressionParser does not retrieve the value when
\* it is not evaluating, and returns null; StringParser always retrieves
\* it.
ParseIdentifierExpression(parser, st, evaluate) ==
    LET id == CurrentCharacter(st)
        chk == CheckStack(parser, st,
                          StackUsage.GetObjectValueUsingTableNumber, evaluate)
        e == Enter(chk, StackUsage.GetObjectValueUsingTableNumber)
    IN  IF id \in NamedConstants(parser)
        THEN [AdvancePointer(st) EXCEPT !.val =
                IF id = "null" THEN NullValue ELSE BoolValue(id = "true")]
        ELSE IF parser = "ExpressionParser" /\ ~evaluate
        THEN [AdvancePointer(st) EXCEPT !.val = NullValue]
        ELSE IF Stopped(chk) THEN chk
        ELSE IF Stopped(e) THEN e
        ELSE Leave(GetObjectValue(e, evaluate),
                   StackUsage.GetObjectValueUsingTableNumber)

\* What is recorded of an operand of a short-circuit operator: the operator
\* and the evaluate its parse was called with, whether the operand is
\* needed for the result, the evaluate passed down for the operand, the
\* tokens of the operand (from, up to but excluding to), the value before
\* the operator, the value of the operand and the result.
Operand(op, evaluate, needed, passed, from, to, left, value, result) ==
    [op |-> op, evaluate |-> evaluate, needed |-> needed, passed |-> passed,
     from |-> from, to |-> to, left |-> left, value |-> value,
     result |-> result]

\* The element of a set of one element.  A value that is used more than
\* once below is computed once, as x in The({F(x) : x \in {value}}).
The(S) == CHOOSE x \in S : TRUE

RECURSIVE ParseUnary(_, _, _)
RECURSIVE ParseBinary(_, _, _, _)

\* ExpressionParser::ParseInternal or StringParser::ParseExpression: an
\* expression is parsed from st.pos on, up to a binary operator of the given
\* priority or lower.
ParseWith(parser, st, evaluate, priority) ==
    The({IF Stopped(s) THEN s
         ELSE IF Stopped(e) THEN e
         ELSE The({Leave(b, StackUsage.ParseInternal) :
                b \in {ParseBinary(parser, u, evaluate, priority) :
                         u \in {ParseUnary(parser, e, evaluate)}}}) :
            s \in {st}, e \in {Enter(st, StackUsage.ParseInternal)}})

\* A recursive call of ParseInternal or ParseExpression, ExpressionParser
\* checking the stack before it.
ParseChecked(parser, st, evaluate, priority) ==
    ParseWith(parser,
              CheckStack(parser, st, StackUsage.ParseInternal, evaluate),
              evaluate, priority)

\* The first part of ParseInternal and of ParseExpression: a unary
\* operator, a number or an identifier.  The parsers differ in unary plus:
\* StringParser has its operand evaluated whatever evaluate is.
ParseUnary(parser, st, evaluate) ==
    LET c == CurrentCharacter(st)
    IN  CASE c = "-" ->
                The({IF Stopped(r) THEN r
                     ELSE IF r.val.type = "Int32"
                     THEN [r EXCEPT !.val = IntValue(-r.val.v)]
                     ELSE ThrowParseException(r,
                            "expected numeric value after '-'", evaluate) :
                        r \in {ParseChecked(parser, AdvancePointer(st),
                                            evaluate, UnaryPriority)}})
          [] c = "+" ->
                The({IF Stopped(r) THEN r
                     ELSE IF r.val.type = "Int32" THEN r
                     ELSE ThrowParseException(r,
                            "expected numeric or enumeration value after '+'",
                            evaluate) :
                        r \in {ParseChecked(parser, AdvancePointer(st),
                                            IF parser = "StringParser"
                                            THEN TRUE ELSE evaluate,
                                            UnaryPriority)}})
          [] c = "!" ->
                The({LET b == ConvertToBool(r, evaluate)
                     IN  IF Stopped(r) THEN r
                         ELSE IF Stopped(b) THEN b
                         ELSE [b EXCEPT !.val = BoolValue(~b.val.v)] :
                        r \in {ParseChecked(parser, AdvancePointer(st),
                                            evaluate, UnaryPriority)}})
          [] c \in Numbers -> ParseNumber(st)
          [] c \in Identifiers ->
                The({IF Stopped(chk) THEN chk
                     ELSE The({IF Stopped(e) THEN e
                               ELSE Leave(ParseIdentifierExpression(parser, e,
                                                                    evaluate),
                                          StackUsage.ParseIdentifierExpression) :
                            e \in {Enter(chk,
                                   StackUsage.ParseIdentifierExpression)}}) :
                        chk \in {CheckStack(parser, st,
                                    StackUsage.ParseIdentifierExpression,
                                    evaluate)}})
          [] OTHER -> ThrowParseException(st, "expected an expression", evaluate)

\* The second part of ParseInternal and of ParseExpression: the loop over
\* the binary operators that follow.  st.val is the value parsed so far.
ParseBinary(parser, st, evaluate, priority) ==
    LET chars == Characters(CurrentCharacter(st))
    IN  IF Stopped(st) THEN st
        ELSE IF chars[1] \notin Operators(parser) THEN st
        ELSE IF Priorities[chars[1]] <= priority THEN st
        ELSE
        LET opPrio == Priorities[chars[1]]
            after == AdvancePointer(st)
            \* >= and <= and, in ExpressionParser, !=
            invert == chars[1] \in {"!", "<", ">"} /\ chars[2] = "="
            opChar == CASE chars[1] = "!" -> "="
                        [] chars[1] = "<" /\ invert -> ">"
                        [] chars[1] = ">" /\ invert -> "<"
                        [] OTHER -> chars[1]
            Inverted(b) == IF invert THEN ~b ELSE b
        IN  CASE chars[1] = "!" /\ chars[2] # "=" ->
                    ThrowParseException(after, "expected '='", evaluate)
              [] opChar \in {"&", "|"} ->
                    LET val == ConvertToBool(after, evaluate)
                        needed == IF opChar = "&" THEN val.val.v
                                  ELSE ~val.val.v
                    IN  IF Thrown(val) THEN val
                        ELSE The({
                        LET conv == IF needed THEN ConvertToBool(val2, evaluate)
                                    ELSE val2
                            result == IF needed THEN conv.val ELSE val.val
                        IN  IF Stopped(val2) THEN val2
                            ELSE IF Thrown(conv) THEN conv
                            ELSE ParseBinary(parser,
                                    [conv EXCEPT
                                        !.val = result,
                                        !.operands = @ \cup
                                            {Operand(opChar, evaluate, needed,
                                                     evaluate /\ needed,
                                                     val.pos, val2.pos, val.val,
                                                     conv.val, result)}],
                                    evaluate, priority) :
                            val2 \in {ParseChecked(parser, val,
                                                   evaluate /\ needed,
                                                   opPrio)}})
              [] opChar = "?" ->
                    LET val == ConvertToBool(after, evaluate)
                        b == val.val.v
                    IN  IF Thrown(val) THEN val
                        ELSE The({
                        IF Stopped(second) THEN second
                        ELSE IF CurrentCharacter(second) # ":"
                        THEN ThrowParseException(second, "expected ':'",
                                                 evaluate)
                        ELSE The({
                            IF Stopped(third) THEN third
                            ELSE [third EXCEPT
                                    !.val = IF b THEN second.val
                                            ELSE third.val,
                                    !.operands = @ \cup
                                        {Operand("?", evaluate, b,
                                                 evaluate /\ b, val.pos,
                                                 second.pos, val.val,
                                                 second.val,
                                                 IF b THEN second.val
                                                 ELSE third.val),
                                         Operand(":", evaluate, ~b,
                                                 evaluate /\ ~b,
                                                 second.pos + 1, third.pos,
                                                 val.val, third.val,
                                                 IF b THEN second.val
                                                 ELSE third.val)}] :
                                \* the stack is not checked again
                                third \in {ParseWith(parser,
                                                AdvancePointer(second),
                                                evaluate /\ ~b, opPrio - 1)}}) :
                            second \in {ParseChecked(parser, val,
                                                     evaluate /\ b, opPrio)}})
              [] opChar \in {"+", "-", "*"} ->
                    The({
                    LET bal == BalanceNumericTypes(st.val, val2.val, evaluate)
                        r == Arith32(opChar, bal[1].v, bal[2].v)
                    IN  IF Stopped(val2) THEN val2
                        ELSE IF bal = ""
                        THEN ThrowParseException(val2,
                                "expected numeric operands", evaluate)
                        \* signed overflow is undefined: the build wraps
                        \* the result or traps
                        ELSE IF ~r.fits /\ val2.build = "trap"
                        THEN [val2 EXCEPT !.fault = "overflow"]
                        ELSE ParseBinary(parser,
                                [val2 EXCEPT !.val = IntValue(r.wrapped)],
                                evaluate, priority) :
                        val2 \in {ParseChecked(parser, after, evaluate,
                                               opPrio)}})
              [] opChar \in {"<", ">"} ->
                    The({
                    LET bal == BalanceTypes(st.val, val2.val, evaluate)
                        b == CASE bal[1].type = "Int32" ->
                                    IF opChar = ">" THEN bal[1].v > bal[2].v
                                    ELSE bal[1].v < bal[2].v
                               [] bal[1].type = "Bool" ->
                                    IF opChar = ">"
                                    THEN bal[1].v /\ ~bal[2].v
                                    ELSE ~bal[1].v /\ bal[2].v
                               [] OTHER -> FALSE
                    IN  IF Stopped(val2) THEN val2
                        ELSE IF bal = ""
                        THEN ThrowParseException(val2,
                                "cannot convert operands to same type",
                                evaluate)
                        ELSE IF /\ bal[1].type \notin {"Int32", "Bool"}
                                /\ (evaluate \/ parser = "StringParser")
                        THEN ThrowParseException(val2,
                                "expected numeric or Boolean operands to comparison operator",
                                evaluate)
                        ELSE ParseBinary(parser,
                                [val2 EXCEPT !.val = BoolValue(Inverted(b))],
                                evaluate, priority) :
                        val2 \in {ParseChecked(parser, after, evaluate,
                                               opPrio)}})
              [] opChar = "=" ->
                    The({
                    LET bal == BalanceTypes(st.val, val2.val, evaluate)
                    IN  IF Stopped(val2) THEN val2
                        \* ExpressionParser: before balancing, handle
                        \* comparisons with null
                        ELSE IF /\ parser = "ExpressionParser"
                                /\ "Null" \in {st.val.type, val2.val.type}
                        THEN ParseBinary(parser,
                                [val2 EXCEPT !.val = BoolValue(Inverted(
                                    /\ st.val.type = "Null"
                                    /\ val2.val.type = "Null"))],
                                evaluate, priority)
                        ELSE IF bal = ""
                        THEN ThrowParseException(val2,
                                "cannot convert operands to same type",
                                evaluate)
                        ELSE IF bal[1].type \notin {"Int32", "Bool"}
                        THEN ThrowParseException(val2,
                                "unexpected operand type to equality operator",
                                evaluate)
                        ELSE ParseBinary(parser,
                                [val2 EXCEPT !.val = BoolValue(Inverted(
                                    bal[1].v = bal[2].v))],
                                evaluate, priority) :
                        val2 \in {ParseChecked(parser, after, evaluate,
                                               opPrio)}})

\* ExpressionParser::ParseInternal
ParseInternal(st, evaluate, priority) ==
    ParseWith("ExpressionParser", st, evaluate, priority)

\* StringParser::ParseExpression
ParseExpression(st, priority, evaluate) ==
    ParseWith("StringParser", st, evaluate, priority)

\* What a parse that ended in st leaves behind.  Once the stack has been
\* overrun the behaviour is undefined: any value may come out.
Outcomes(st) ==
    IF st.fault = "overrun"
    THEN {[st EXCEPT !.val = v] :
            v \in {NullValue, BoolValue(FALSE), BoolValue(TRUE)}}
    ELSE {st}

\* ExpressionParser::Parse(true): the expression is evaluated.
Parse ==
    /\ parse.parser = "none"
    /\ \E val \in {ParseInternal([parse EXCEPT !.parser = "ExpressionParser"],
                                 TRUE, 0)} :
          parse' \in Outcomes(val)
    /\ UNCHANGED <<ring, ddaRingAddPointer, ddaRingGetPointer, currentDda,
                   addNoMoreMoves, idleCount, simulating, currentFeedrate,
                   nextMove, pc, pause, pauseCalls, simulateCalls, begun,
                   running, liveVars, unguarded, otherVars, kinematics, idleHold,
                   simulationTime, gb>>

\* StringParser::EvaluateCondition: the condition of an `if` or `while` is
\* evaluated, nothing may follow it and it must be Boolean.
EvaluateCondition ==
    /\ parse.parser = "none"
    /\ \E val \in {ParseExpression([parse EXCEPT !.parser = "StringParser"],
                                   0, TRUE)} :
          parse' \in Outcomes(
                    IF Stopped(val) THEN val
                    ELSE IF CurrentCharacter(val) # ""
                    THEN ThrowParseException(val,
                            "unexpected characters following condition", TRUE)
                    ELSE ConvertToBool(val, TRUE))
    /\ UNCHANGED <<ring, ddaRingAddPointer, ddaRingGetPointer, currentDda,
                   addNoMoreMoves, idleCount, simulating, currentFeedrate,
                   nextMove, pc, pause, pauseCalls, simulateCalls, begun,
                   running, liveVars, unguarded, otherVars, kinematics, idleHold,
                   simulationTime, gb>>

\* --------------------------------------------- conditional G-code in files
\* ProcessIfCommand taking the condition for true whatever its value.
ProcessIfCommandTaken(g, cond) ==
    [g EXCEPT !.evaluated =
                Append(@, [line |-> g.filePos - 1, value |-> cond]),
              !.blockStates[g.indentLevel].blockType = "ifTrue"]

\* StringParser::ProcessIfCommand, the condition having the value cond.
\* The history field evaluated records the evaluation.
ProcessIfCommand(g, cond) ==
    LET e == [g EXCEPT !.evaluated =
                        Append(@, [line |-> g.filePos - 1, value |-> cond])]
    IN  IF cond
        THEN [e EXCEPT !.blockStates[g.indentLevel].blockType = "ifTrue"]
        ELSE [e EXCEPT !.blockStates[g.indentLevel].blockType =
                            "ifFalseNoneTrue",
                       !.indentToSkipTo = g.indentLevel]

\* StringParser::CheckMetaCommand for a line of a file, with the functions
\* it calls: line is the line LineFinished has completed, cond the value
\* its condition has if it is evaluated.  The block states, CreateBlock,
\* EndBlock and GetIterations belong to GCodeMachineState.  A line that is
\* not a meta command and is not skipped is left to be executed, which the
\* history field executed records.
CheckMetaCommand(g, line, cond) ==
    LET commandIndent == line.commandIndent
        here == g.filePos - 1
        Type(h) == h.blockStates[h.indentLevel].blockType
        SetType(h, t) == [h EXCEPT !.blockStates[h.indentLevel].blockType = t]
        SkipToEnd(h) == [h EXCEPT !.indentToSkipTo = h.indentLevel]
        Throw(h, message) == [h EXCEPT !.error = message]
        Evaluate(h) ==
            [h EXCEPT !.evaluated = Append(@, [line |-> here, value |-> cond])]
        LoopsBelow(h, lowest) ==
            {l \in lowest .. h.indentLevel - 1 :
                h.blockStates[l].blockType = "loop"}
        Innermost(levels) == CHOOSE l \in levels : \A m \in levels : m <= l
        GetIterations(h) ==
            LET loops == {l \in 0 .. h.indentLevel :
                            h.blockStates[l].blockType = "loop"}
            IN  IF loops = {} THEN -1
                ELSE h.blockStates[Innermost(loops)].iterations
        CreateBlocks(h) ==
            [h EXCEPT !.indentLevel = commandIndent,
                      !.blockStates =
                          [l \in DOMAIN @ |->
                              IF l > h.indentLevel /\ l <= commandIndent
                              THEN [@[l] EXCEPT !.blockType = "plain"]
                              ELSE @[l]]]
        \* EndBlocks: restarted tells that the file was rewound to the
        \* start of a loop and nothing more is to be done with the line.
        EndBlocks(h) ==
            LET loops == LoopsBelow(h, commandIndent)
            IN  IF loops = {}
                THEN [restarted |-> FALSE,
                      g |-> [h EXCEPT !.indentLevel = commandIndent]]
                ELSE LET b == h.blockStates[Innermost(loops)]
                     IN  [restarted |-> TRUE,
                          g |-> [h EXCEPT !.indentLevel = Innermost(loops),
                                          !.lineNumber = b.lineNumber,
                                          !.filePos = b.filePos]]
        ProcessElseCommand(h, previousBlockType) ==
            IF previousBlockType = "ifFalseNoneTrue"
            THEN SetType(h, "plain")
            ELSE IF Type(h) \in {"ifTrue", "ifFalseHadTrue"}
            THEN SetType(SkipToEnd(h), "plain")
            ELSE Throw(h, "'else' did not follow 'if'")
        ProcessElifCommand(h, previousBlockType) ==
            IF previousBlockType = "ifFalseNoneTrue"
            THEN IF cond THEN SetType(Evaluate(h), "ifTrue")
                 ELSE SetType(SkipToEnd(Evaluate(h)), "ifFalseNoneTrue")
            ELSE IF Type(h) \in {"ifTrue", "ifFalseHadTrue"}
            THEN SetType(SkipToEnd(h), "ifFalseHadTrue")
            ELSE Throw(h, "'elif' did not follow 'if")
        ProcessWhileCommand(h) ==
            LET l == IF Type(h) = "loop"
                     THEN [h EXCEPT !.blockStates[h.indentLevel].iterations =
                                        @ + 1]
                     ELSE [h EXCEPT !.blockStates[h.indentLevel] =
                                        [blockType |-> "loop", iterations |-> 0,
                                         filePos |-> here,
                                         lineNumber |-> h.lineNumber]]
            IN  IF cond THEN Evaluate(l)
                ELSE SkipToEnd(SetType(Evaluate(l), "plain"))
        ProcessBreakCommand(h) ==
            LET loops == LoopsBelow(h, 0)
            IN  IF loops = {}
                THEN Throw([h EXCEPT !.indentLevel = 0],
                           "'break' was not inside a loop")
                ELSE SetType([h EXCEPT !.indentLevel = Innermost(loops)],
                             "plain")
        ProcessConditionalGCode(h, previousBlockType) ==
            CASE line.word = "if" -> ProcessIfCommand(h, cond)
              [] line.word = "else" -> ProcessElseCommand(h, previousBlockType)
              [] line.word = "elif" -> ProcessElifCommand(h, previousBlockType)
              [] line.word = "while" -> ProcessWhileCommand(h)
              [] line.word = "break" -> ProcessBreakCommand(h)
              [] OTHER ->
                    [h EXCEPT !.executed =
                        Append(@, [line |-> here,
                                   iterations |-> GetIterations(h)])]
        endsSkip == /\ g.indentToSkipTo # NoIndentSkip
                    /\ g.indentToSkipTo >= commandIndent
        previousBlockType ==
            IF endsSkip /\ g.indentToSkipTo = commandIndent THEN Type(g)
            ELSE "plain"
        unskipped ==
            IF ~endsSkip THEN g
            ELSE [(IF g.indentToSkipTo = commandIndent
                   THEN SetType(g, "plain") ELSE g)
                  EXCEPT !.indentToSkipTo = NoIndentSkip]
    IN  IF g.indentToSkipTo < commandIndent THEN g
        ELSE IF commandIndent > unskipped.indentLevel
        THEN ProcessConditionalGCode(CreateBlocks(unskipped), previousBlockType)
        ELSE IF commandIndent < unskipped.indentLevel
        THEN IF EndBlocks(unskipped).restarted THEN EndBlocks(unskipped).g
             ELSE ProcessConditionalGCode(EndBlocks(unskipped).g,
                                          previousBlockType)
        ELSE ProcessConditionalGCode(unskipped, previousBlockType)

\* StringParser::Put for the characters of one line of the file being read,
\* up to the end of the line: LineFinished counts the line and the line is
\* checked for a meta command.  The line is the one at the file position;
\* past the lines read so far the file continues with any line, or ends.
\* A condition is true at most MaxTrue times in a run.  After a parse
\* exception nothing more is read.
Put ==
    /\ gb.error = ""
    /\ ~gb.ended
    /\ \E line \in IF gb.filePos <= Len(gb.file) THEN {gb.file[gb.filePos]}
                   ELSE IF Len(gb.file) < MaxFileLines
                   THEN [commandIndent : 0 .. MaxIndent,
                         word : {"G", "if", "elif", "else", "while", "break"}]
                   ELSE {} :
        \E cond \in IF Cardinality({i \in DOMAIN gb.evaluated :
                                        gb.evaluated[i].value}) < MaxTrue
                    THEN BOOLEAN ELSE {FALSE} :
            gb' = CheckMetaCommand(
                    [gb EXCEPT !.file = IF gb.filePos <= Len(@) THEN @
                                        ELSE Append(@, line),
                               !.filePos = @ + 1,
                               !.lineNumber = @ + 1],
                    line, cond)
    /\ UNCHANGED <<ring, ddaRingAddPointer, ddaRingGetPointer, currentDda,
                   addNoMoreMoves, idleCount, simulating, currentFeedrate,
                   nextMove, pc, pause, pauseCalls, simulateCalls, begun,
                   running, liveVars, unguarded, otherVars, kinematics, parse,
                   idleHold, simulationTime>>

\* StringParser::FileEnded: the file has no more lines.  Nothing is left in
\* the buffer, so no command is completed, and the blocks stay as they are.
FileEnded ==
    /\ gb.error = ""
    /\ ~gb.ended
    /\ gb.filePos > Len(gb.file)
    /\ gb' = [gb EXCEPT !.ended = TRUE]
    /\ UNCHANGED <<ring, ddaRingAddPointer, ddaRingGetPointer, currentDda,
                   addNoMoreMoves, idleCount, simulating, currentFeedrate,
                   nextMove, pc, pause, pauseCalls, simulateCalls, begun,
                   running, liveVars, unguarded, otherVars, kinematics, parse,
                   idleHold, simulationTime>>

\* ----------------------------------------------------------- specification

\* A tick of Spin, the front-end offering one of Moves or nothing.  The
\* executing move needs no more time (0) or at least the horizon.
SpinTick(Moves) ==
    \E m \in {NoMove} \cup Moves :
        \E last \in IF currentDda = Nil /\ ~simulating THEN BOOLEAN
                    ELSE {FALSE},
           tl \in IF currentDda # Nil /\ ~simulating THEN {0, PrepareHorizon}
                  ELSE {0},
           preempt \in {"none", "early", "late"} :
            Spin(m, last, tl, preempt)

\* A call of PausePrint: any of the queued moves may or may not have an end
\* speed low enough to pause after it.
PausePrint ==
    \E u \in UndefinedValues :
        \E pausable \in SUBSET {d \in Slots : ring[d].state # "empty"} :
            PauseBegin(u, pausable)

\* Simulation mode is switched on or off.
SetSimulate == Simulate(~simulating)

\* The moves of a run: short moves, any of which may or may not come from
\* the print file.
ShortMoves ==
    IF nextMove <= MaxMoves
    THEN MovesOffered(nextMove, BOOLEAN, {0}, {FALSE})
    ELSE {}

\* The whole program: planner ticks, step interrupts, pauses and switches
\* of simulation mode in any order.
Next ==
    \/ SpinTick(ShortMoves)
    \/ SpinWalk
    \/ Interrupt
    \/ PausePrint
    \/ PauseRelease
    \/ SetSimulate

Spec == Init /\ [][Next]_vars

\* The moves the front-end offers in a run of moves that take time: 1/16 s,
\* 1/4 s or 1.75 s each.
TimedMoves ==
    IF nextMove <= MaxMoves
    THEN MovesOffered(nextMove, {FALSE}, {1, 4, 28}, {FALSE})
    ELSE {}

\* Printing moves that take time.
NextTimed ==
    \/ SpinTick(TimedMoves)
    \/ SpinWalk
    \/ Interrupt

SpecTimed == Init /\ [][NextTimed]_vars

\* Move::SetIdleTimeout: the timeout is switched off or set to its default.
SetIdleTimeout ==
    /\ MainTaskFree
    /\ \E timeout \in {0, defaultIdleTimeout} :
        /\ timeout # idleHold.idleTimeout
        /\ idleHold' = [idleHold EXCEPT !.idleTimeout = timeout]
    /\ UNCHANGED <<ring, ddaRingAddPointer, ddaRingGetPointer, currentDda,
                   addNoMoreMoves, idleCount, simulating, currentFeedrate,
                   nextMove, pc, pause, pauseCalls, simulateCalls, begun,
                   running, liveVars, unguarded, otherVars, kinematics, parse,
                   simulationTime, gb>>

\* Printing moves that take time, with the idle timeout switched off and on.
NextIdle ==
    \/ SpinTick(TimedMoves)
    \/ SpinWalk
    \/ Interrupt
    \/ SetIdleTimeout

SpecIdle == Init /\ [][NextIdle]_vars

\* Moves that take time, printed or simulated: simulation mode is switched
\* on or off at any moment of the run.
SpecSimulated ==
    Init /\ [][SpinTick(TimedMoves) \/ SpinWalk \/ Interrupt \/ SetSimulate]_vars

\* A file of G-code with conditions and loops is read line by line.
SpecFile == Init /\ [][Put \/ FileEnded]_vars

\* Printing without pauses and without simulation: accepts, dispatches,
\* look-ahead preparations and move completions only.
NextRun ==
    \/ SpinTick(ShortMoves)
    \/ SpinWalk
    \/ Interrupt

SpecRun == Init /\ [][NextRun]_vars

\* Printing with pauses, simulation mode never switched on.
NextPause ==
    \/ SpinTick(ShortMoves)
    \/ SpinWalk
    \/ Interrupt
    \/ PausePrint
    \/ PauseRelease

SpecPause == Init /\ [][NextPause]_vars

\* PausePrint called while a move is executing.
PausePrintRunning == currentDda # Nil /\ PausePrint

\* Printing with pauses that are requested only while a move executes.
NextPauseRunning ==
    \/ SpinTick(ShortMoves)
    \/ SpinWalk
    \/ Interrupt
    \/ PausePrintRunning
    \/ PauseRelease

SpecPauseRunning == Init /\ [][NextPauseRunning]_vars

\* The moves of a short run: short moves of the given types, none of them
\* from the print file.
FewMoves(Types) ==
    IF nextMove <= MaxFewMoves
    THEN {[m EXCEPT !.moveType = t] :
            m \in MovesOffered(nextMove, {FALSE}, {0}, {FALSE}), t \in Types}
    ELSE {}

\* Printing, with moves given in machine coordinates (type 0) and as motor
\* positions (type 2), while the live position is asked for.
NextLive ==
    \/ SpinTick(FewMoves({0, 2}))
    \/ SpinWalk
    \/ Interrupt
    \/ LiveCoordinatesBegin
    \/ LiveCoordinatesEnd

SpecLive == Init /\ [][NextLive]_vars

\* A call of SetPositions or of SetFeedrate.
SetPosition == SetPositions(Point(9))
SetSpeed == SetFeedrate(50)

\* Printing, with pauses, while positions and feedrates are set.
NextSet ==
    \/ SpinTick(FewMoves({0}))
    \/ SpinWalk
    \/ Interrupt
    \/ PausePrint
    \/ PauseRelease
    \/ SetPosition
    \/ SetSpeed

SpecSet == Init /\ [][NextSet]_vars

\* A Core machine before any move is offered: CoreXY, CoreXZ or CoreYZ,
\* each drive with 1, 2 or 3 steps per mm, or with half as many (1, 2 or 3
\* steps per 2 mm).
InitCore ==
    /\ InitPipeline
    /\ deltaParams = InitialDeltaParams
    /\ kinematics \in
         {[InitialKinematics(spu) EXCEPT !.coreXYMode = c, !.stepUnits = u] :
            c \in {1, 2, 3}, spu \in [Axes -> {1, 2, 3}], u \in {1, 2}}
    /\ parse = NotParsing

\* The position of a Core machine is set, to a point of a grid or as in
\* the example of the CoreXY mapping.
SetCorePosition ==
    \E move \in [Axes -> {-5, 0, 5, 10}] : SetPositions(move)

SpecCore == InitCore /\ [][SetCorePosition]_vars

\* The solutions of the normal equations, as far as the endstop adjustments
\* go, and the values of the geometry term.
Solutions == [Axes -> {0, 3}]
GeometryTerms == {10, 11}

\* A call of DoDeltaCalibration, which the step interrupt may preempt.
Calibrate ==
    \E numPoints \in {3, 4, 7, MaxDeltaCalibrationPoints + 1},
       singular \in BOOLEAN, v \in Solutions, g \in GeometryTerms,
       preemptAt \in {Nil} \cup (0 .. AXES) :
        DoDeltaCalibration(numPoints, singular, v, g, preemptAt)

\* A delta executing raw moves (type 1, which on a delta gives the motor
\* positions), and calibrated.
NextDelta ==
    \/ SpinTick(FewMoves({1}))
    \/ SpinWalk
    \/ Interrupt
    \/ Calibrate

SpecDelta == InitDelta /\ [][NextDelta]_vars

\* A delta of the geometry DeltaGeometry, its endstop adjustments
\* normalised and its homed carriage height as Recalc has computed it.
InitHomed ==
    /\ InitPipeline
    /\ deltaParams \in
         {Recalc([ConfiguredDeltaParams EXCEPT !.endstopAdjustments = e,
                                               !.homedHeight = h],
                 HomedCarriageTerm(e)) :
            e \in {x \in [Axes -> {-1, 0, 1}] :
                     x[X_AXIS] + x[Y_AXIS] + x[Z_AXIS] = 0},
            h \in {defaultDeltaHomedHeight, defaultDeltaHomedHeight + 1}}
    /\ kinematics = InitialKinematics(DriveStepsPerUnit)
    /\ parse = NotParsing

\* A call of DoDeltaCalibration that changes the endstop adjustments only:
\* Recalc computes the homed carriage height from the adjustments as
\* normalised.
CalibrateEndstops ==
    \E numPoints \in {4, 7, MaxDeltaCalibrationPoints + 1},
       v \in [Axes -> {-1, 0, 1}] :
        \E n \in {NormaliseEndstopAdjustments(
                    [deltaParams EXCEPT !.endstopAdjustments =
                                           [a \in Axes |-> @[a] + v[a]]])} :
            DoDeltaCalibration(numPoints, FALSE, v,
                               HomedCarriageTerm(n.endstopAdjustments), Nil)

SpecHomed == InitHomed /\ [][CalibrateEndstops]_vars

\* The moves of a short run when the front-end also offers moves of zero
\* length; any of them may or may not come from the print file.
FewMovesOrNoOps ==
    IF nextMove <= MaxFewMoves
    THEN MovesOffered(nextMove, BOOLEAN, {0}, BOOLEAN)
    ELSE {}

\* Printing with moves of zero length among those offered.
NextNoOps ==
    \/ SpinTick(FewMovesOrNoOps)
    \/ SpinWalk
    \/ Interrupt

SpecNoOps == Init /\ [][NextNoOps]_vars

\* Printing on a machine with axis and bed compensation, with moves of
\* every type.
NextCompensated ==
    \/ SpinTick(FewMoves({0, 1, 2}))
    \/ SpinWalk
    \/ Interrupt

SpecCompensated == InitCompensated /\ [][NextCompensated]_vars

\* The expressions given to the parsers: every sequence of up to MaxTokens
\* tokens.
Expressions == UNION {[1 .. n -> Tokens] : n \in 1 .. MaxTokens}

\* An expression is about to be parsed.
InitParse ==
    /\ InitPipeline
    /\ deltaParams = InitialDeltaParams
    /\ kinematics = InitialKinematics(DriveStepsPerUnit)
    /\ parse \in {[NotParsing EXCEPT !.input = e] : e \in Expressions}

\* An expression is parsed by either parser.
NextParse ==
    \/ Parse
    \/ EvaluateCondition

SpecParse == InitParse /\ [][NextParse]_vars

\* Expressions of two or three operands, and the examples of the
\* specification; either build.
Operands == {"0", "1", "3", "2147483647", "true", "null"}
Arithmetic ==
    LET BinaryOperators == {"+", "-", "*", ">", "<=", "==", "!=", "&&", "||"}
    IN  {<<a, o, b>> : a \in Operands, o \in BinaryOperators,
                       b \in Operands}
        \cup {<<a, o, b, p, c>> : a \in Operands, o \in BinaryOperators,
                                  b \in Operands, p \in BinaryOperators,
                                  c \in Operands}
        \cup {<<"2", "+", "3", ">", "4", "&&", "1">>,
              <<"2", "+", "3", ">", "4", "&&", "true">>,
              <<"1", "+", "2", "*", "3">>}

InitArithmetic ==
    /\ InitPipeline
    /\ deltaParams = InitialDeltaParams
    /\ kinematics = InitialKinematics(DriveStepsPerUnit)
    /\ parse \in {[NotParsing EXCEPT !.input = e, !.build = b] :
                    e \in Arithmetic, b \in {"wrap", "trap"}}

SpecArithmetic == InitArithmetic /\ [][NextParse]_vars

\* Nested expressions, with little stack left when the parse begins.
Nested ==
    UNION {[1 .. n -> {"-", "!", "+", "1", "true", "a"}] : n \in 1 .. MaxNested}

InitNested ==
    /\ InitPipeline
    /\ deltaParams = InitialDeltaParams
    /\ kinematics = InitialKinematics(DriveStepsPerUnit)
    /\ parse \in {[NotParsing EXCEPT !.input = e, !.headroom = h] :
                    e \in Nested, h \in {200, 1100, 1510, 1590, 1830}}

SpecNested == InitNested /\ [][NextParse]_vars

\* ------------------------------------------------------------ properties

\* The descriptors from one ring position up to, not including, another.
RingRange(from, to) ==
    {d \in Slots : (d + DdaRingLength - from) % DdaRingLength
                     < (to + DdaRingLength - from) % DdaRingLength}

Occupied(r) == {d \in Slots : r[d].state # "empty"}

\* The first file position a descriptor from d up to end carries.
RECURSIVE FirstFilePosition(_, _, _)
FirstFilePosition(r, d, end) ==
    IF d = end THEN noFilePosition
    ELSE IF r[d].filePos # noFilePosition THEN r[d].filePos
    ELSE FirstFilePosition(r, GetNext(d), end)

\* The first descriptor that can be paused after among the queued moves,
\* from d onwards (n descriptors seen so far); Nil when there is none.
RECURSIVE FirstPauseSafe(_, _, _, _)
FirstPauseSafe(r, pausable, d, n) ==
    IF n = DdaRingLength \/ r[d].state = "empty" THEN Nil
    ELSE IF CanPause(pausable, d) THEN d
    ELSE FirstPauseSafe(r, pausable, GetNext(d), n + 1)

\* PausePrint has returned from a call made with a move executing that can
\* be paused after.
PausedAfterCurrent ==
    /\ pc = "returned"
    /\ pause.entry.cur # Nil
    /\ CanPause(pause.entry.pausable, pause.entry.cur)

\* The descriptors a call of PausePrint skips: from the new add pointer up
\* to the add pointer it found.
SkippedByPause == RingRange(ddaRingAddPointer, pause.entry.add)

\* C1: after any sequence of Spin ticks, step interrupts, PausePrint calls
\* and simulation steps, at most one descriptor is in state executing.
AtMostOneExecuting ==
    Cardinality({d \in Slots : ring[d].state = "executing"}) <= 1

\* A move executes with the next one prepared behind it, after a pause.
AtMostOneExecutingWitness ==
    /\ pauseCalls > 0
    /\ \E d, e \in Slots : ring[d].state = "executing" /\ ring[e].state = "frozen"

\* C2, as claimed: currentDda is nil if and only if no descriptor is frozen
\* or executing, in every state reached by accepts, dispatches, look-ahead
\* preparations and move completions.
CurrentNilIffNothingPrepared ==
    (currentDda = Nil) <=>
        ~ \E d \in Slots : ring[d].state \in {"frozen", "executing"}

\* C2, amended: currentDda is nil if and only if no descriptor is
\* executing, and a non-nil currentDda is the executing descriptor; a frozen
\* descriptor can wait with currentDda nil.
CurrentNilIffNoneExecuting ==
    /\ (currentDda = Nil) <=> ~ \E d \in Slots : ring[d].state = "executing"
    /\ currentDda # Nil => ring[currentDda].state = "executing"

\* No move is executing and a prepared one waits to be dispatched.
FrozenWithoutCurrent ==
    /\ currentDda = Nil
    /\ ring[ddaRingGetPointer].state = "frozen"

\* C3: whenever currentDda is non-nil it is the descriptor at
\* ddaRingGetPointer and its state is frozen or executing.
CurrentIsAtGetPointer ==
    currentDda # Nil =>
        /\ currentDda = ddaRingGetPointer
        /\ ring[currentDda].state \in {"frozen", "executing"}

\* C4: outside PausePrint's release loop the two pointers partition the
\* ring: the descriptors from the get pointer up to the add pointer are
\* occupied and those from the add pointer up to the get pointer are
\* empty; with the pointers equal the ring is all empty or all occupied.
RingPartitioned ==
    pc # "release" =>
        /\ \A d \in RingRange(ddaRingGetPointer, ddaRingAddPointer) :
              ring[d].state # "empty"
        /\ \A d \in RingRange(ddaRingAddPointer, ddaRingGetPointer) :
              ring[d].state = "empty"
        /\ ddaRingAddPointer = ddaRingGetPointer =>
              Occupied(ring) \in {{}, Slots}

\* C5: moves are executed in the order they were accepted in: the move
\* whose execution begins next was accepted after every move whose
\* execution began before.
ExecutedInAcceptanceOrder == [][begun' # begun => begun' > begun]_vars

\* C6: while the descriptor at the add pointer is not empty Spin takes no
\* move from the front-end, and no step changes the move an occupied
\* descriptor holds.
FullRingRefusesMoves ==
    [][/\ ring[ddaRingAddPointer].state # "empty" => nextMove' = nextMove
       /\ \A d \in Occupied(ring) :
             /\ ring'[d].seq = ring[d].seq
             /\ ring'[d].filePos = ring[d].filePos
             /\ ring'[d].endCoordinate = ring[d].endCoordinate
             /\ ring'[d].requestedSpeed = ring[d].requestedSpeed]_vars

\* Every descriptor is occupied, the front-end has a move to offer, and
\* Spin has ticked since the ring filled up.
FullRingWitness ==
    /\ Occupied(ring) = Slots
    /\ nextMove <= MaxMoves
    /\ idleCount > 0

PauseReportsLastMove ==
    (pc \in {"release", "returned"} /\ pause.skipped) =>
        LET last == pause.entry.ring[GetPrevious(ddaRingAddPointer)]
        IN  /\ pause.positions = last.endCoordinate
            /\ pause.feedrate = last.requestedSpeed

\* C10: called with no executing move that can be paused after, PausePrint
\* moves the add pointer behind the first queued move, from the get
\* pointer, that can be paused after; it leaves it alone when there is none
\* and sets it to the get pointer when the ring holds no move.
PauseTruncatesAtFirstPauseSafe ==
    (/\ pc \in {"release", "returned"}
     /\ pause.entry.cur = Nil \/ ~CanPause(pause.entry.pausable, pause.entry.cur)) =>
        LET e == pause.entry
            safe == FirstPauseSafe(e.ring, e.pausable, e.get, 0)
        IN  IF Occupied(e.ring) = {} THEN ddaRingAddPointer = e.get
            ELSE IF safe # Nil THEN ddaRingAddPointer = GetNext(safe)
            ELSE ddaRingAddPointer = e.add

\* C11: once PausePrint has been called, no step puts a new move into a
\* descriptor of the ring (no descriptor is given a move it did not hold).
NoMoveAcceptedAfterPause ==
    [][pauseCalls > 0 => \A d \in Slots : ring'[d].seq = ring[d].seq]_vars

\* C12: the main task makes every access to the fields it shares with the
\* step interrupt (currentDda, liveCoordinates, liveEndPoints,
\* liveCoordinatesValid) with interrupts disabled.
MainTaskAccessesGuarded == unguarded = {}

\* C13: whenever liveCoordinatesValid is true the cached coordinates are
\* those of the current live end points, and LiveCoordinates stores its
\* result back only when the live end points are still what it sampled.
CachedCoordinatesMatchEndPoints ==
    /\ [](liveCoordinatesValid =>
            liveCoordinates = MachineToEndPoint(Kinematics, liveEndPoints))
    /\ [][(/\ pc = "liveCoordinates"
           /\ pc' = "run"
           /\ \/ liveCoordinates' # liveCoordinates
              \/ liveCoordinatesValid' # liveCoordinatesValid)
          => /\ live.tempEndPoints = liveEndPoints
             /\ liveEndPoints' = liveEndPoints
             /\ liveCoordinatesValid']_vars

\* LiveCoordinates has stored back the coordinates of a move that was given
\* as motor positions, whose completion had left the cache invalid.
CachedBackWitness ==
    /\ calls.LiveCoordinates > 0
    /\ pc = "run"
    /\ liveCoordinatesValid
    /\ live.tempEndPoints = liveEndPoints
    /\ \E d \in Slots : /\ ring[d].endPoint = liveEndPoints
                        /\ ~ring[d].endCoordinatesValid

\* C14: a call of SetPositions or SetFeedrate made while the ring holds a
\* queued move logs an error and changes no descriptor and no feedrate; a
\* call that changes something is made with the ring empty and changes only
\* the descriptor before the add pointer.
SetRefusedWhileQueued ==
    [][calls.SetPositions' # calls.SetPositions =>
        /\ Occupied(ring) # {} =>
              /\ Len(messages') = Len(messages) + 1
              /\ ring' = ring
              /\ currentFeedrate' = currentFeedrate
        /\ (ring' # ring \/ currentFeedrate' # currentFeedrate) =>
              /\ Occupied(ring) = {}
              /\ \A d \in Slots \ {GetPrevious(ddaRingAddPointer)} :
                    ring'[d] = ring[d]]_vars

\* C15: a call of DoDeltaCalibration with a number of probe points outside
\* 4 .. MaxDeltaCalibrationPoints, or with a singular normal matrix, logs
\* an error and leaves the delta parameters, the end points of the
\* descriptors, the live end points and liveCoordinatesValid as they were.
CalibrationErrorChangesNothing ==
    [][(/\ calls.DoDeltaCalibration' # calls.DoDeltaCalibration
        /\ \/ calibration'.numPoints < 4
           \/ calibration'.numPoints > MaxDeltaCalibrationPoints
           \/ calibration'.singular)
       => /\ Len(messages') = Len(messages) + 1
          /\ deltaParams' = deltaParams
          /\ \A d \in Slots : ring'[d].endPoint = ring[d].endPoint
          /\ liveEndPoints' = liveEndPoints
          /\ liveCoordinatesValid' = liveCoordinatesValid]_vars

\* The descriptors that hold a queued move.
Queued(r) == {d \in Slots : r[d].state \in {"provisional", "frozen", "executing"}}

\* C16: when a delta adjustment is applied, the end point of every queued
\* descriptor is shifted, on each tower, by the change of that tower's homed
\* carriage height times the steps per mm, and liveCoordinatesValid
\* becomes false.
AdjustmentShiftsEveryQueuedMove ==
    [][(/\ calls.DoDeltaCalibration' # calls.DoDeltaCalibration
        /\ messages' = messages)
       => /\ \A d \in Queued(ring) : \A drive \in Axes :
                ring'[d].endPoint[drive] =
                    ring[d].endPoint[drive]
                      + (GetHomedCarriageHeight(deltaParams', drive)
                           - GetHomedCarriageHeight(deltaParams, drive))
                        * DriveStepsPerUnit[drive]
          /\ ~liveCoordinatesValid']_vars

\* Spin has accepted a move in this step: the descriptor at the add pointer
\* has taken it and the add pointer has advanced.
MoveAccepted ==
    /\ ddaRingAddPointer' = GetNext(ddaRingAddPointer)
    /\ ring'[ddaRingAddPointer].seq # ring[ddaRingAddPointer].seq

\* C17: the transforms applied to an accepted move follow its type.  A move
\* of type 0 gets skew compensation, bed compensation and motor mapping; a
\* move of type 1 gets motor mapping only, and not even that on a delta; a
\* move of type 2 gets none, its coordinates are those of the motors.  And
\* GetCurrentUserPosition, asked with the type of the move just queued,
\* returns the coordinates the move was given with.
TransformsFollowMoveType ==
    [][MoveAccepted =>
         LET dda == ring'[ddaRingAddPointer]
             k == Kinematics
             given == Point(dda.seq)
             motors == [a \in Axes |-> MotorEndPointToMachine(k, a, given[a])]
         IN  /\ dda.endPoint =
                   CASE dda.moveType = 0 ->
                            MotorTransform(k, Transform(k, given))
                     [] dda.moveType = 1 ->
                            IF k.deltaMode THEN motors
                            ELSE MotorTransform(k, given)
                     [] dda.moveType = 2 -> motors
             /\ GetCurrentUserPosition(k, ring', ddaRingAddPointer',
                                       dda.moveType) = given]_vars

\* C18: a move that DDA::Init refuses takes no ring slot.  In a tick of Spin
\* that reads a move, either the descriptor at the add pointer takes the
\* move, the add pointer advances by one slot and idleCount is reset; or
\* the move is refused, the descriptor stays empty as it was, the add
\* pointer stays and idleCount is not reset.
RefusedMoveTakesNoSlot ==
    [][nextMove' # nextMove =>
         LET d == ddaRingAddPointer
             taken == ring'[d].seq = nextMove /\ ring'[d].state # "empty"
         IN  /\ ring[d].state = "empty"
             /\ ~taken => /\ ring'[d] = ring[d]
                          /\ \A e \in Slots : ring'[e].seq # nextMove
             /\ ddaRingAddPointer' = IF taken THEN GetNext(d) ELSE d
             /\ (idleCount' = 0) <=> taken]_vars

\* A move of zero length has been read and refused: the first move offered
\* has been read, its feedrate taken, and the ring is as Move::Init left it.
RefusedMoveWitness ==
    /\ nextMove = 2
    /\ currentFeedrate = 101
    /\ ddaRingAddPointer = 0
    /\ idleCount > 0
    /\ \A d \in Slots : ring[d] = InitialDda

\* The identifiers among the tokens from position from up to, but
\* excluding, position to whose value the parse has retrieved.
RetrievedIn(from, to) == {p \in parse.retrieved : from <= p /\ p < to}

\* C19: the short-circuit operators evaluate only the operand they need.
\* Wherever an evaluated expression `a & b`, `a | b` or `c ? x : y` has been
\* parsed, the operand b is needed iff a is true for `&` and iff a is false
\* for `|`, x is needed iff c is true and y iff c is false; an operand that
\* is not needed has been parsed with evaluate = false and nothing in it
\* has been evaluated (no value retrieved); and the result is the needed
\* operand, or a itself when b is not needed.
ShortCircuitEvaluatesNeededOnly ==
    \A o \in parse.operands :
        o.evaluate =>
            /\ o.left.type = "Bool"
            /\ o.needed = CASE o.op \in {"&", "?"} -> o.left.v
                            [] o.op \in {"|", ":"} -> ~o.left.v
            /\ o.passed = o.needed
            /\ ~o.needed => RetrievedIn(o.from, o.to) = {}
            /\ o.needed => o.result = o.value
            /\ ~o.needed /\ o.op \in {"&", "|"} => o.result = o.left

\* The exceptions that report a syntax error.
SyntaxErrors ==
    {"expected an expression", "expected ':'",
     "unexpected characters following condition"}

\* C20: while a sub-expression is parsed with evaluate = false only syntax
\* errors are raised.  An exception thrown by a parsing function that was
\* called with evaluate = false reports a syntax error.
UnevaluatedRaisesSyntaxErrorsOnly ==
    Thrown(parse) /\ ~parse.err.evaluate => parse.err.message \in SyntaxErrors


\* An expression has been parsed by either parser.
Parsed == parse.parser # "none"

\* The parse has returned a value: no exception, no reset, nothing undefined.
Returned == Parsed /\ ~Stopped(parse)

\* C21: evaluating the expression `2 + 3 > 4 && 1` yields the Boolean true.
PrecedenceExampleIsTrue ==
    Parsed /\ parse.input = <<"2", "+", "3", ">", "4", "&&", "1">>
        => Returned /\ parse.val = BoolValue(TRUE)

\* C21, amended: evaluating `2 + 3 > 4 && 1` raises "expected Boolean
\* operand", the second operand of && being an integer and not a Boolean;
\* evaluating `2 + 3 > 4 && true` yields the Boolean true.
PrecedenceExampleNeedsBoolean ==
    /\ Parsed /\ parse.input = <<"2", "+", "3", ">", "4", "&&", "1">>
        => /\ parse.err.message = "expected Boolean operand"
           /\ parse.fault = "none"
    /\ Parsed /\ parse.input = <<"2", "+", "3", ">", "4", "&&", "true">>
        => Returned /\ parse.val = BoolValue(TRUE)

PrecedenceExampleWitness ==
    /\ parse.parser = "ExpressionParser"
    /\ parse.input = <<"2", "+", "3", ">", "4", "&&", "1">>
    /\ parse.err.message = "expected Boolean operand"
    /\ parse.pos = 8

\* The value of a number.
NumberOf(t) == ParseNumber([NotParsing EXCEPT !.input = <<t>>]).val.v

\* C22: binary operators obey the priority table and group left to right:
\* for all int32 operands a, b and c, `a + b * c` evaluates to the integer
\* a + (b * c) and `a - b - c` to (a - b) - c; a sum binds tighter than a
\* comparison, and a comparison tighter than `&&`.
PriorityAndLeftAssociativity ==
    parse.parser = "ExpressionParser" /\ Len(parse.input) = 5
        => \A a, b, c \in Operands \cap Numbers :
            LET x == NumberOf(a)
                y == NumberOf(b)
                z == NumberOf(c)
            IN  /\ parse.input = <<a, "+", b, "*", c>>
                    => /\ Arith32("*", y, z).fits
                       /\ Arith32("+", x, y * z).fits
                       /\ Returned /\ parse.val = IntValue(x + (y * z))
                /\ parse.input = <<a, "-", b, "-", c>>
                    => /\ Arith32("-", x, y).fits
                       /\ Arith32("-", x - y, z).fits
                       /\ Returned /\ parse.val = IntValue((x - y) - z)
                /\ parse.input = <<a, "*", b, "-", c>>
                    => /\ Arith32("*", x, y).fits
                       /\ Arith32("-", x * y, z).fits
                       /\ Returned /\ parse.val = IntValue((x * y) - z)
                /\ parse.input = <<a, ">", b, "+", c>>
                    => /\ Arith32("+", y, z).fits
                       /\ Returned /\ parse.val = BoolValue(x > y + z)
                /\ parse.input = <<a, ">", b, "&&", "true">>
                    => Returned /\ parse.val = BoolValue(x > y)
                /\ parse.input = <<"true", "||", a, "<=", b>>
                    => Returned /\ parse.val = BoolValue(TRUE)

\* C23: equality against null is true only for null: `null == null` is
\* true, `v == null` and `null == v` are false for every value v that is not
\* null, no error is raised, and `!=` gives the negation.
NullEqualsOnlyNull ==
    \A v \in Operands :
        /\ Parsed /\ parse.input \in {<<v, "==", "null">>, <<"null", "==", v>>}
            => Returned /\ parse.val = BoolValue(v = "null")
        /\ Parsed /\ parse.input \in {<<v, "!=", "null">>, <<"null", "!=", v>>}
            => Returned /\ parse.val = BoolValue(v # "null")

\* C24: expression nesting never overruns the stack: the parse ends with
\* the error "Expression nesting too deep" or, if there is not enough stack
\* left to raise it, in a software reset with reason stackOverflow.
NestingNeverOverrunsStack == parse.fault # "overrun"


\* C25: after every Recalc in delta mode (here: after every calibration
\* that adjusted the parameters), homedCarriageHeight equals homedHeight +
\* diagonal minus the z of the inverse transform of the three carriage
\* heights diagonal + endstopAdjustment, each tower with its own endstop
\* adjustment.
HomedCarriageHeightUsesOwnEndstops ==
    [][(calls'.DoDeltaCalibration # calls.DoDeltaCalibration
          /\ messages' = messages /\ deltaParams'.deltaMode)
       => LET e == deltaParams'.endstopAdjustments
              diagonal == DeltaGeometry.diagonal
          IN  deltaParams'.homedCarriageHeight
                = deltaParams'.homedHeight + diagonal
                    - InverseTransformZ(diagonal + e[X_AXIS],
                                        diagonal + e[Y_AXIS],
                                        diagonal + e[Z_AXIS])]_vars


\* The descriptor SetPositions writes to.
lastQueued == ring[GetPrevious(ddaRingAddPointer)]

\* C26: in the CoreXY, CoreXZ and CoreYZ modes, for every machine position
\* with integer coordinates and all positive steps per mm, the motor
\* positions MotorTransform gives are mapped back to the position by
\* MachineToEndPoint; CoreXY with 1 step per mm maps (10, 5, 0) to the
\* motor positions (15, -5, 0) and those back to (10, 5, 0).
CoreRoundTrip ==
    calls.SetPositions > 0
    => /\ MachineToEndPoint(Kinematics, lastQueued.endPoint)
            = lastQueued.endCoordinate
       /\ (/\ Kinematics.coreXYMode = 1
           /\ Kinematics.stepsPerUnit = Point(1)
           /\ Kinematics.stepUnits = 1
           /\ lastQueued.endCoordinate = (0 :> 10 @@ 1 :> 5 @@ 2 :> 0))
          => lastQueued.endPoint = (0 :> 15 @@ 1 :> -5 @@ 2 :> 0)

\* C26 as amended: the same, for drives whose steps per mm are whole
\* numbers.
CoreRoundTripOfWholeSteps ==
    (calls.SetPositions > 0 /\ Kinematics.stepUnits = 1)
    => /\ MachineToEndPoint(Kinematics, lastQueued.endPoint)
            = lastQueued.endCoordinate
       /\ (/\ Kinematics.coreXYMode = 1
           /\ Kinematics.stepsPerUnit = Point(1)
           /\ lastQueued.endCoordinate = (0 :> 10 @@ 1 :> 5 @@ 2 :> 0))
          => lastQueued.endPoint = (0 :> 15 @@ 1 :> -5 @@ 2 :> 0)

CoreRoundTripWitness ==
    /\ calls.SetPositions > 0
    /\ Kinematics.coreXYMode = 1
    /\ Kinematics.stepsPerUnit = (0 :> 2 @@ 1 :> 3 @@ 2 :> 1)
    /\ Kinematics.stepUnits = 1
    /\ lastQueued.endCoordinate = (0 :> 10 @@ 1 :> 5 @@ 2 :> 0)
    /\ lastQueued.endPoint = (0 :> 30 @@ 1 :> -15 @@ 2 :> 0)


\* The provisional descriptors met walking backwards from d, newest first.
RECURSIVE ProvisionalRun(_, _)
ProvisionalRun(r, d) ==
    IF r[d].state = "provisional" THEN <<d>> \o ProvisionalRun(r, GetPrevious(d))
    ELSE << >>

\* The summed duration of the descriptors ds of the ring r.
RECURSIVE Duration(_, _)
Duration(r, ds) ==
    IF ds = << >> THEN 0 ELSE r[Head(ds)].time + Duration(r, Tail(ds))

\* C27: Spin accepts a move only if, of the consecutive provisional
\* descriptors behind addPointer, those but the oldest last less than 0.5 s
\* together or all of them last less than 2.0 s; otherwise the front-end is
\* not polled on that tick.
AdmissionPolicy ==
    [][ring[ddaRingAddPointer].state = "empty"
       => LET run == ProvisionalRun(ring, GetPrevious(ddaRingAddPointer))
              admitted ==
                \/ Duration(ring, SubSeq(run, 1, Len(run) - 1))
                        < UnpreparedLimit
                \/ Duration(ring, run) < TotalLimit
          IN  /\ ddaRingAddPointer' # ddaRingAddPointer => admitted
              /\ ~admitted => /\ nextMove' = nextMove
                              /\ ddaRingAddPointer' = ddaRingAddPointer]_vars

\* A move is refused admission although a slot is free, and another is
\* admitted behind two provisional moves.
AdmissionWitness ==
    /\ ring[ddaRingAddPointer].state = "empty"
    /\ Len(ProvisionalRun(ring, GetPrevious(ddaRingAddPointer))) >= 2
    /\ ~Admits(ring, ddaRingAddPointer)


Between(c, d) ==
    [i \in 1 .. (((d + DdaRingLength - c) % DdaRingLength) - 1) |->
        (c + i) % DdaRingLength]

IdleHoldCycle ==
    [][LET from == idleHold.iState
           to == idleHold'.iState
           dispatches == begun' # begun /\ currentDda = Nil /\ ~simulating
       IN  /\ dispatches => to = "busy"
           /\ (from # to /\ to = "busy") => dispatches
           /\ (from = "busy" /\ to = "timing")
              => /\ currentDda = Nil /\ currentDda' = Nil /\ begun' = begun
                 /\ idleCount' > IdleThreshold
                 /\ ~idleHold'.paused
                 /\ idleHold.idleTimeout > 0
           /\ (from = "timing" /\ to = "idle")
              => /\ idleHold'.waited >= idleHold.idleTimeout
                 /\ idleHold'.idled = Point(1)
           /\ from # to
              => <<from, to>> \in {<<"idle", "busy">>, <<"busy", "timing">>,
                                   <<"timing", "idle">>, <<"timing", "busy">>}
           /\ (idleHold'.idled # idleHold.idled /\ idleHold'.idled # Point(0))
              => (from = "timing" /\ to = "idle")]_vars

\* The drives have been put in idle hold after a move was executed and the
\* timeout has passed.
IdleHoldWitness ==
    /\ idleHold.iState = "idle"
    /\ idleHold.idled = Point(1)
    /\ idleHold.waited >= idleHold.idleTimeout
    /\ idleHold.idleTimeout > 0
    /\ begun > 0



\* C31: in simulation mode with no move executing, a tick of Spin that
\* consumes the move at the get pointer adds exactly that move's duration
\* to simulationTime, copies the descriptor's end position to the live end
\* points and coordinates, releases the descriptor, advances the get
\* pointer by one and leaves currentDda nil; a step that consumes no move
\* leaves simulationTime alone, and switching simulation on sets it to
\* zero.  So simulationTime is the sum of the durations of the moves
\* consumed since simulation was switched on.
SimulationAddsDurations ==
    [][/\ (simulating /\ simulating' /\ currentDda = Nil) =>
            LET dda == ring[ddaRingGetPointer]
            IN  IF ddaRingGetPointer' # ddaRingGetPointer \/ begun' # begun
                THEN /\ simulationTime' = simulationTime + dda.time
                     /\ liveEndPoints' = dda.endPoint
                     /\ liveCoordinatesValid' = dda.endCoordinatesValid
                     /\ dda.endCoordinatesValid =>
                            liveCoordinates' = dda.endCoordinate
                     /\ dda.state # "empty"
                     /\ ring'[ddaRingGetPointer].state = "empty"
                     /\ ddaRingGetPointer' = GetNext(ddaRingGetPointer)
                     /\ begun' = dda.seq
                     /\ currentDda' = Nil
                ELSE simulationTime' = simulationTime
       /\ (~simulating /\ simulating') => simulationTime' = 0
       /\ ~simulating' => simulationTime' = simulationTime]_vars


\* The line read by a step that reads a line of the file, whether the line
\* is skipped, and whether reading it rewound the file to the start of a
\* loop.
ThisLine == gb'.file[gb.filePos]
ReadsLine == gb' # gb /\ gb'.ended = gb.ended
Skipped == gb.indentToSkipTo < ThisLine.commandIndent
Rewound == gb'.filePos # gb.filePos + 1
LastEvaluated == gb'.evaluated[Len(gb'.evaluated)]
BlockType(g) == g.blockStates[g.indentLevel].blockType

\* C32: an `if` line that is reached evaluates its condition; when it is
\* true the block becomes ifTrue and nothing is skipped, when it is false
\* the block becomes ifFalseNoneTrue and lines are skipped down to the
\* indentation of the `if`.  While lines are being skipped, a line
\* indented deeper than that changes nothing; the first line that is not
\* indented deeper is dealt with, and a line of G-code that is dealt with
\* is executed.
IfSetsBlockAndSkips ==
    [][ReadsLine =>
        /\ (ThisLine.word = "if" /\ ~Skipped /\ ~Rewound) =>
            /\ Len(gb'.evaluated) = Len(gb.evaluated) + 1
            /\ LastEvaluated.line = gb.filePos
            /\ gb'.error = ""
            /\ gb'.indentLevel = ThisLine.commandIndent
            /\ BlockType(gb') = IF LastEvaluated.value THEN "ifTrue"
                                ELSE "ifFalseNoneTrue"
            /\ gb'.indentToSkipTo = IF LastEvaluated.value THEN NoIndentSkip
                                    ELSE ThisLine.commandIndent
        /\ Skipped =>
            gb' = [gb EXCEPT !.filePos = @ + 1, !.lineNumber = @ + 1,
                             !.file = gb'.file]
        /\ (ThisLine.word = "G" /\ ~Skipped /\ ~Rewound) =>
            /\ Len(gb'.executed) = Len(gb.executed) + 1
            /\ gb'.executed[Len(gb'.executed)].line = gb.filePos
            /\ gb'.indentToSkipTo = NoIndentSkip]_vars

\* An `if` was false, the deeper line after it was skipped and the line
\* after that, indented as the `if`, was executed.
IfWitness ==
    \E i \in 1 .. Len(gb.file) - 2 :
        /\ gb.file[i].word = "if"
        /\ \E e \in DOMAIN gb.evaluated :
                gb.evaluated[e] = [line |-> i, value |-> FALSE]
        /\ gb.file[i + 1].word = "G"
        /\ gb.file[i + 1].commandIndent > gb.file[i].commandIndent
        /\ \A x \in DOMAIN gb.executed : gb.executed[x].line # i + 1
        /\ gb.file[i + 2].word = "G"
        /\ gb.file[i + 2].commandIndent = gb.file[i].commandIndent
        /\ \E x \in DOMAIN gb.executed : gb.executed[x].line = i + 2


\* The type, before a line is read, of the block at the line's indentation,
\* if there is one: the block the line follows.
Follows(types) ==
    /\ ThisLine.commandIndent <= gb.indentLevel
    /\ gb.blockStates[ThisLine.commandIndent].blockType \in types

\* C33: an `elif` line that follows a block in state ifFalseNoneTrue
\* evaluates its condition and makes the block ifTrue, nothing being
\* skipped, or ifFalseNoneTrue, its body being skipped; an `elif` line that
\* follows a block in state ifTrue or ifFalseHadTrue does not evaluate its
\* condition, makes the block ifFalseHadTrue and has its body skipped;
\* neither raises an error.
ElifFollowsChain ==
    [][(ReadsLine /\ ThisLine.word = "elif" /\ ~Skipped /\ ~Rewound) =>
        /\ Follows({"ifFalseNoneTrue"}) =>
            /\ Len(gb'.evaluated) = Len(gb.evaluated) + 1
            /\ LastEvaluated.line = gb.filePos
            /\ gb'.error = ""
            /\ BlockType(gb') = IF LastEvaluated.value THEN "ifTrue"
                                ELSE "ifFalseNoneTrue"
            /\ gb'.indentToSkipTo = IF LastEvaluated.value THEN NoIndentSkip
                                    ELSE ThisLine.commandIndent
        /\ Follows({"ifTrue", "ifFalseHadTrue"}) =>
            /\ gb'.evaluated = gb.evaluated
            /\ gb'.error = ""
            /\ BlockType(gb') = "ifFalseHadTrue"
            /\ gb'.indentToSkipTo = ThisLine.commandIndent]_vars


\* C34: an `else` line that follows a block in state ifFalseNoneTrue makes
\* the block plain and nothing is skipped, so that its body is executed; an
\* `else` line that follows a block in state ifTrue or ifFalseHadTrue makes
\* the block plain and has its body skipped; neither raises an error.  An
\* `else` line that follows no such block raises the error "'else' did not
\* follow 'if'".
ElseFollowsChain ==
    [][(ReadsLine /\ ThisLine.word = "else" /\ ~Skipped /\ ~Rewound) =>
        /\ gb'.evaluated = gb.evaluated
        /\ Follows({"ifFalseNoneTrue"}) =>
            /\ gb'.error = ""
            /\ BlockType(gb') = "plain"
            /\ gb'.indentLevel = ThisLine.commandIndent
            /\ gb'.indentToSkipTo = NoIndentSkip
        /\ Follows({"ifTrue", "ifFalseHadTrue"}) =>
            /\ gb'.error = ""
            /\ BlockType(gb') = "plain"
            /\ gb'.indentLevel = ThisLine.commandIndent
            /\ gb'.indentToSkipTo = ThisLine.commandIndent
        /\ ~Follows({"ifFalseNoneTrue", "ifTrue", "ifFalseHadTrue"}) =>
            gb'.error = "'else' did not follow 'if'"]_vars


\* The values the condition of line i has had and the values of
\* `iterations` in the executions of line k, in order of time.
RECURSIVE ValuesOf(_, _)
ValuesOf(evaluated, i) ==
    IF evaluated = << >> THEN << >>
    ELSE LET rest == ValuesOf(Tail(evaluated), i)
         IN  IF Head(evaluated).line = i
             THEN <<Head(evaluated).value>> \o rest ELSE rest
RECURSIVE IterationsAt(_, _)
IterationsAt(executed, k) ==
    IF executed = << >> THEN << >>
    ELSE LET rest == IterationsAt(Tail(executed), k)
         IN  IF Head(executed).line = k
             THEN <<Head(executed).iterations>> \o rest ELSE rest

\* The lines of the body of the block that line i opens, and the first line
\* after the block (past the end of the file if there is none).
BodyOf(i) ==
    {k \in i + 1 .. Len(gb.file) :
        \A m \in i + 1 .. k :
            gb.file[m].commandIndent > gb.file[i].commandIndent}
After(i) == i + Cardinality(BodyOf(i)) + 1

\* The condition of line i was true n times and then false.
TrueThenFalse(i, n) ==
    ValuesOf(gb.evaluated, i) = [x \in 1 .. n + 1 |-> x <= n]

\* C35: for a `while` line whose body is plain G-code, in a file in which
\* no `while` up to this one is without a body, and whose condition was
\* true n times and then false, each line of the body has been executed
\* n times, with `iterations` 0, 1, ..., n-1, and the line of G-code that
\* follows the block at the indentation of the `while` is executed once;
\* every end of the body rewinds the file to the `while`, so that reading
\* the file does not end before the condition has been found false.
WhileRunsBody ==
    \A i \in 1 .. Len(gb.file) :
        (/\ gb.file[i].word = "while"
         /\ \A w \in 1 .. i :
                gb.file[w].word = "while" => BodyOf(w) # {}
         /\ \A k \in BodyOf(i) : gb.file[k].word = "G") =>
            /\ \A n \in 0 .. MaxTrue :
                TrueThenFalse(i, n) =>
                    /\ \A k \in BodyOf(i) :
                          IterationsAt(gb.executed, k) = [x \in 1 .. n |-> x - 1]
                    /\ (/\ After(i) <= Len(gb.file)
                        /\ gb.file[After(i)].word = "G"
                        /\ gb.file[After(i)].commandIndent =
                                gb.file[i].commandIndent) =>
                            /\ Len(IterationsAt(gb.executed, After(i))) <= 1
                            /\ gb.filePos > After(i) =>
                                Len(IterationsAt(gb.executed, After(i))) = 1
            /\ (/\ gb.ended
                /\ ValuesOf(gb.evaluated, i) # << >>) =>
                    \E n \in 0 .. MaxTrue :
                        ValuesOf(gb.evaluated, i) = [x \in 1 .. n + 1 |-> x <= n]


\* The levels below the indentation of the line read whose block is a loop.
EnclosingLoops ==
    {l \in 0 .. ThisLine.commandIndent - 1 :
        /\ l <= gb.indentLevel
        /\ gb.blockStates[l].blockType = "loop"}

\* C36: a `break` line that is reached inside a loop ends the blocks down
\* to the innermost loop and makes that block plain, without an error; one
\* that is reached outside any loop raises "'break' was not inside a
\* loop".  After a `break` the loop is left: when the first line of the
\* body of the first `while` of a file is a `break`, the condition of the
\* `while` is evaluated once at most and no other line of the body is ever
\* executed.
BreakLeavesLoop ==
    /\ [][(ReadsLine /\ ThisLine.word = "break" /\ ~Skipped /\ ~Rewound) =>
            IF EnclosingLoops = {}
            THEN gb'.error = "'break' was not inside a loop"
            ELSE /\ gb'.error = ""
                 /\ gb'.indentLevel \in EnclosingLoops
                 /\ \A l \in EnclosingLoops : l <= gb'.indentLevel
                 /\ BlockType(gb') = "plain"
                 /\ gb'.evaluated = gb.evaluated
                 /\ gb'.executed = gb.executed]_vars
    /\ [](\A w \in 1 .. Len(gb.file) - 1 :
            (/\ gb.file[w].word = "while"
             /\ \A x \in 1 .. w - 1 : gb.file[x].word # "while"
             /\ gb.file[w + 1].word = "break"
             /\ w + 1 \in BodyOf(w)) =>
                /\ Len(ValuesOf(gb.evaluated, w)) <= 1
                /\ \A k \in BodyOf(w) : IterationsAt(gb.executed, k) = << >>)


\* The lines of the chain that an `if` on the first line of the file
\* starts: the `if` and the `elif` and `else` lines that follow it at its
\* indentation, up to the first `else`.
Chain ==
    {m \in 1 .. Len(gb.file) :
        /\ gb.file[1] = [commandIndent |-> 0, word |-> "if"]
        /\ \/ m = 1
           \/ /\ gb.file[m].commandIndent = 0
              /\ gb.file[m].word \in {"elif", "else"}
              /\ \A x \in 2 .. m - 1 :
                    gb.file[x].commandIndent = 0 => gb.file[x].word = "elif"}

\* The file read so far is such a chain with bodies of plain G-code.
IsChain ==
    /\ Chain # {}
    /\ \A k \in 1 .. Len(gb.file) :
        \/ k \in Chain
        \/ gb.file[k].word = "G" /\ gb.file[k].commandIndent > 0

\* Whether the condition of line m has been found true, and whether the
\* body of line m of the chain is the one to execute.
FoundTrue(m) == \E e \in DOMAIN gb.evaluated :
                    gb.evaluated[e] = [line |-> m, value |-> TRUE]
Taken(m) ==
    IF gb.file[m].word = "else"
    THEN \A c \in Chain : c < m => ~FoundTrue(c)
    ELSE FoundTrue(m)

\* C37: reading an if / elif ... / else chain raises no error; a condition
\* is evaluated once at most and not at all after an earlier one was found
\* true; the lines of one body only are executed, once each: the body of
\* the first condition found true or, when none is true, the body of the
\* `else`.
ChainRunsOneBody ==
    IsChain =>
        /\ gb.error = ""
        /\ \A m \in Chain :
            /\ Len(ValuesOf(gb.evaluated, m)) <= 1
            /\ (\E c \in Chain : c < m /\ FoundTrue(c)) =>
                    ValuesOf(gb.evaluated, m) = << >>
            /\ \A k \in BodyOf(m) :
                /\ Len(IterationsAt(gb.executed, k)) <= 1
                /\ IterationsAt(gb.executed, k) # << >> => Taken(m)
                /\ (Taken(m) /\ gb.filePos > k) =>
                        IterationsAt(gb.executed, k) # << >>


\* C38: from the moment PausePrint has moved the add pointer back, no move
\* it skips (the moves held by the descriptors from the new add pointer up
\* to the old one) is started by the step interrupt, however the interrupt
\* and the release loop interleave.
SkippedMoveNeverExecuted ==
    [][(pc = "release" \/ pc = "returned") =>
        \A d \in (IF pc = "release" THEN SkippedByPause ELSE pause.released) :
            (/\ running' # pause.entry.ring[d].seq
             /\ (currentDda' # currentDda => currentDda' # d))]_vars


\* C39: every call of Spin returns by itself: its walks over the ring end
\* in every state of the ring, and Spin is never left inside a walk that
\* only the step interrupt can end.
SpinReturnsUnaided == pc # "spinWalk"


\* C40: the drives are commanded idle only in a tick in which no move is
\* executing (currentDda is nil before and after it), the descriptor at the
\* get pointer is neither provisional, frozen nor executing, and the
\* printer is not paused.
IdleOnlyWhenNothingQueued ==
    [][(idleHold'.idled = Point(1) /\ idleHold.idled # Point(1)) =>
        /\ currentDda = Nil
        /\ currentDda' = Nil
        /\ ring[ddaRingGetPointer].state
                \notin {"provisional", "frozen", "executing"}
        /\ ring'[ddaRingGetPointer'].state
                \notin {"provisional", "frozen", "executing"}
        /\ ~idleHold'.paused]_vars

====
